---- MODULE Spec2Model ----
(***************************************************************************)
(* Signaling layer of the mediasoup SFU video conference:                  *)
(* socket-handler.js (the Socket.IO event handlers and the `peers` Map)    *)
(* together with mediasoup-handler.js (the calls into the Media Engine).   *)
(*                                                                         *)
(* Every handler runs to its first `await` without interruption (Node's    *)
(* single thread), so a handler that awaits the Media Engine is two steps: *)
(* the request step, which validates and issues the engine call, and the   *)
(* resolve/reject step, which runs the continuation.  The continuation     *)
(* works on the session object captured before the await, also when the    *)
(* disconnect handler has deleted the Map entry in between.                *)
(***************************************************************************)
EXTENDS Integers, Sequences, FiniteSets, Bags, TLC

----------------------------------------------------------------------------
(* Bounds of the model *)

MaxPeers == 2
MaxTransports == 2
MaxProducers == 2
MaxConsumers == 1
MaxPending == 1
MaxTeardowns == 2
MaxCreating == 2
\* engine objects of a conference of MaxPeers browser clients: a send and a
\* receive transport each, and a consumer per remote producer and per way of
\* learning of it (the getProducers reply, the newProducer event)
MaxChoiceTransports == 3
MaxChoiceProducers == 1
MaxJoinTransports == 4
MaxJoinProducers == 4
MaxLeaveTracks == 1
MaxJoinConsumers == 8

----------------------------------------------------------------------------
(* Value domains *)

PeerIds == 1..MaxPeers
TransportIds == 1..MaxTransports
ProducerIds == 1..MaxProducers
Kinds == {"audio", "video"}
\* the `data` payload of createWebRtcTransport: absent, {type:'send'}, {type:'recv'}
TransportData == {"none", "send", "recv"}
\* rtpCapabilities of a consuming client, as router.canConsume judges them
Capabilities == {"compatible", "incompatible"}
\* transportId of a consume request; 0 is "omitted"
NoTransportId == 0
\* an appData object a client sends, as the keys the server can tell apart:
\* `meta` stands for its keys other than socketId ("none": there are none),
\* `socketId` for its socketId key (0: it has none)
NoAppData == [meta |-> "none", socketId |-> 0]
AppDatas == {NoAppData, [meta |-> "mic", socketId |-> 0]}
\* the same, with objects that bring a socketId key of their own
ClaimingAppDatas ==
  {NoAppData} \cup {[meta |-> "mic", socketId |-> q] : q \in PeerIds}

VARIABLES
  sockets,        \* ids of the sockets Socket.IO holds as connected
  opened,         \* number of connections accepted so far (ids are 1..opened)
  peers,          \* keys of the `peers` Map, in insertion order
  session,        \* session[id]: the object stored under id, kept while referenced
  transportInfo,  \* transportInfo[t]: appData of engine transport t
  tstate,         \* tstate[t]: "open", "closed", or "closeThrew" (close() threw)
  producerInfo,   \* producerInfo[p]: engine producer p
  consumerInfo,   \* consumerInfo[c]: engine consumer c
  pending,        \* bag of engine calls awaited by handlers
  inbox,          \* inbox[id]: events emitted to socket id, in order
  lastReply,      \* the value most recently passed to a request's callback
  teardowns,      \* teardowns[id]: runs of the disconnect handler of socket id
  dtlsConnected,  \* transports on which transport.connect() has resolved
  router,         \* TRUE once startMediasoup has created the router
  client          \* client[id]: state of the browser page behind socket id

vars == <<sockets, opened, peers, session, transportInfo, tstate, producerInfo,
          consumerInfo, pending, inbox, lastReply, teardowns, dtlsConnected,
          router, client>>

----------------------------------------------------------------------------
(* Helpers *)

Range(s) == {s[i] : i \in 1..Len(s)}

Count(s, e) == Cardinality({i \in 1..Len(s) : s[i] = e})

\* Array.prototype.find over a list of ids: the first element that matches
\* (is in `matching`), 0 (undefined) if none does
Find(list, matching) ==
  IF \E i \in 1..Len(list) : list[i] \in matching
  THEN list[CHOOSE i \in 1..Len(list) :
              /\ list[i] \in matching
              /\ \A j \in 1..(i - 1) : list[j] \notin matching]
  ELSE 0

\* `calls` counts the invocations of the request's callback
NoReply == [op |-> "none", socket |-> 0, ok |-> FALSE, id |-> 0,
            producerId |-> 0, list |-> <<>>, error |-> "", calls |-> 0]

OkReply(op, id, producerId, list) ==
  [op |-> op, socket |-> 0, ok |-> TRUE, id |-> id, producerId |-> producerId,
   list |-> list, error |-> "", calls |-> 1]

ErrorReply(op, msg) ==
  [op |-> op, socket |-> 0, ok |-> FALSE, id |-> 0, producerId |-> 0,
   list |-> <<>>, error |-> msg, calls |-> 1]

EmptySession == [transports |-> <<>>, producers |-> <<>>, consumers |-> <<>>]

\* an awaited engine call with what the handler's closure holds: of a produce
\* request also its `appData` and the `appData` inside its rtpParameters, of
\* a consume request also the `transportId` the client sent; `callback` is
\* FALSE when the handler's callback parameter is undefined
Request(op, id, type, transport, kind, producerId) ==
  [op |-> op, socket |-> id, type |-> type, transport |-> transport,
   kind |-> kind, producerId |-> producerId,
   appData |-> NoAppData, rtpAppData |-> NoAppData,
   transportId |-> NoTransportId, callback |-> TRUE]

\* (variant: { socketId: transport.appData.socketId, ...rtpParameters.appData },
\* a socketId key of the client's object wins)
ProducerAppDataClientLast(rtpAppData, socketId) ==
  IF rtpAppData.socketId # 0 THEN rtpAppData
  ELSE [rtpAppData EXCEPT !.socketId = socketId]

\* producer.appData as createProducer builds it:
\* { ...(rtpParameters.appData || {}), socketId: transport.appData.socketId },
\* the keys of the client's object first, then socketId set over them
ProducerAppData(rtpAppData, socketId) ==
  [rtpAppData EXCEPT !.socketId = socketId]

NewProducerEventWith(id, p, kind, appData) ==
  [name |-> "newProducer", socketId |-> id, producerId |-> p, kind |-> kind,
   appData |-> appData]

\* the newProducer event of a producer made without metadata
NewProducerEvent(id, p, kind) ==
  NewProducerEventWith(id, p, kind, ProducerAppData(NoAppData, id))

\* { socketId }; the fields it lacks are blank
ParticipantLeftEvent(id) ==
  [name |-> "participantLeft", socketId |-> id, producerId |-> 0, kind |-> "",
   appData |-> ProducerAppData(NoAppData, 0)]

\* (variant: socket.emit, the event goes to the socket it names only)
IoEmitToSelf(box, conn, ev) ==
  [q \in PeerIds |-> IF q = ev.socketId THEN Append(box[q], ev) ELSE box[q]]

\* io.emit: to every connected socket
IoEmit(box, conn, ev) ==
  [q \in PeerIds |-> IF q \in conn THEN Append(box[q], ev) ELSE box[q]]

\* (variant: the event goes to the sender as well, as with io.emit)
BroadcastEmitToAll(box, conn, sender, ev) ==
  [q \in PeerIds |-> IF q \in conn THEN Append(box[q], ev) ELSE box[q]]

\* socket.broadcast.emit: to every connected socket but the sender
BroadcastEmit(box, conn, sender, ev) ==
  [q \in PeerIds |-> IF q \in conn /\ q # sender THEN Append(box[q], ev)
                     ELSE box[q]]

\* the page as loaded: socket created, no Join yet (`let device; let
\* sendTransport; let recvTransport; ...`). pc is the point the join function
\* has reached, tracks the local tracks still to produce, existing the
\* getProducers entries still to consume, handled the number of events of the
\* inbox whose listener has run, consumers the video cards
\* of the grid in document order (one per client-side consumer, labelled with
\* the socket id of the producer's owner), participants the remote keys of the
\* `participants` object
IdleClient ==
  [pc |-> "idle", device |-> FALSE, sendTransport |-> 0, recvTransport |-> 0,
   tracks |-> <<>>, existing |-> <<>>, handled |-> 0,
   consumers |-> <<>>, participants |-> {}]

----------------------------------------------------------------------------
Init ==
  /\ sockets = {}
  /\ opened = 0
  /\ peers = <<>>
  /\ session = <<>>
  /\ transportInfo = <<>>
  /\ tstate = <<>>
  /\ producerInfo = <<>>
  /\ consumerInfo = <<>>
  /\ pending = EmptyBag
  /\ inbox = [q \in PeerIds |-> <<>>]
  /\ lastReply = NoReply
  /\ teardowns = [q \in PeerIds |-> 0]
  /\ dtlsConnected = {}
  /\ router = TRUE
  /\ client = [q \in PeerIds |-> IdleClient]

\* the handlers installed before startMediasoup has finished
InitStartup ==
  /\ sockets = {}
  /\ opened = 0
  /\ peers = <<>>
  /\ session = <<>>
  /\ transportInfo = <<>>
  /\ tstate = <<>>
  /\ producerInfo = <<>>
  /\ consumerInfo = <<>>
  /\ pending = EmptyBag
  /\ inbox = [q \in PeerIds |-> <<>>]
  /\ lastReply = NoReply
  /\ teardowns = [q \in PeerIds |-> 0]
  /\ dtlsConnected = {}
  /\ router = FALSE
  /\ client = [q \in PeerIds |-> IdleClient]

\* startMediasoup: worker.createRouter resolves
StartMediasoup ==
  /\ ~router
  /\ router' = TRUE
  /\ UNCHANGED <<sockets, opened, peers, session, transportInfo, tstate,
                 producerInfo, consumerInfo, pending, inbox, lastReply,
                 teardowns, dtlsConnected>>

\* io.on('connection'): a fresh socket id, a fresh session under it
Connection ==
  /\ opened < MaxPeers
  /\ opened' = opened + 1
  /\ sockets' = sockets \cup {opened + 1}
  /\ peers' = Append(peers, opened + 1)
  /\ session' = Append(session, EmptySession)
  /\ UNCHANGED <<transportInfo, tstate, producerInfo, consumerInfo, pending,
                 inbox, lastReply, teardowns, dtlsConnected, router>>

\* (variant: the session found under the id is torn down before it is replaced)
ConnectionAgainClosing(id) ==
  /\ id \in Range(peers)
  /\ \A req \in DOMAIN pending : req.socket # id
  /\ sockets' = sockets \cup {id}
  /\ session' = [session EXCEPT ![id] = EmptySession]
  /\ tstate' = [t \in DOMAIN tstate |->
                  IF t \in Range(session[id].transports) THEN "closed"
                  ELSE tstate[t]]
  /\ UNCHANGED <<opened, peers, transportInfo, producerInfo, consumerInfo,
                 pending, inbox, lastReply, teardowns, dtlsConnected, router>>

\* io.on('connection') run for a socket whose id is already a key of `peers`
\* (the tests run it before every case with the same mock socket): Map.set
\* replaces the value stored under the key and keeps the key's position.
\* Taken while none of the peer's engine calls is awaited.
ConnectionAgain(id) ==
  /\ id \in Range(peers)
  /\ \A req \in DOMAIN pending : req.socket # id
  /\ sockets' = sockets \cup {id}
  /\ session' = [session EXCEPT ![id] = EmptySession]
  /\ UNCHANGED <<opened, peers, transportInfo, tstate, producerInfo,
                 consumerInfo, pending, inbox, lastReply, teardowns,
                 dtlsConnected, router>>

\* (variant: no try/catch, the first close() that throws ends the loop)
CloseAllUntilThrow(ts, list, throwers) ==
  LET first == IF \E i \in 1..Len(list) : list[i] \in throwers
               THEN CHOOSE i \in 1..Len(list) :
                      /\ list[i] \in throwers
                      /\ \A j \in 1..(i - 1) : list[j] \notin throwers
               ELSE Len(list) + 1
  IN [t \in DOMAIN ts |->
        IF \E i \in 1..Len(list) : list[i] = t /\ i < first THEN "closed"
        ELSE IF \E i \in 1..Len(list) : list[i] = t /\ i = first THEN "closeThrew"
        ELSE ts[t]]

\* peer.transports.forEach(t => { try { t.close() } catch (e) { ... } }):
\* every transport of the list is closed, whichever of them throw
CloseAll(ts, list, throwers) ==
  [t \in DOMAIN ts |->
     IF t \in Range(list)
     THEN (IF t \in throwers THEN "closeThrew" ELSE "closed")
     ELSE ts[t]]

\* (variant: the handler cleans up without telling the other clients)
DisconnectHandlerSilent(id, conn, throwers) ==
  /\ inbox' = inbox
  /\ IF id \in Range(peers)
     THEN tstate' = CloseAll(tstate, session[id].transports, throwers)
     ELSE tstate' = tstate
  /\ peers' = SelectSeq(peers, LAMBDA k : k # id)
  /\ teardowns' = [teardowns EXCEPT ![id] = @ + 1]

\* (variant: the handler closes the transports but leaves the Map entry)
DisconnectHandlerKeepingEntry(id, conn, throwers) ==
  /\ inbox' = IoEmit(inbox, conn, ParticipantLeftEvent(id))
  /\ IF id \in Range(peers)
     THEN tstate' = CloseAll(tstate, session[id].transports, throwers)
     ELSE tstate' = tstate
  /\ peers' = peers
  /\ teardowns' = [teardowns EXCEPT ![id] = @ + 1]

\* body of socket.on('disconnect') for socket id; `conn` is the set of sockets
\* still connected when it runs, `throwers` the transports whose close() throws
DisconnectHandler(id, conn, throwers) ==
  /\ inbox' = IoEmit(inbox, conn, ParticipantLeftEvent(id))
  /\ IF id \in Range(peers)
     THEN tstate' = CloseAll(tstate, session[id].transports, throwers)
     ELSE tstate' = tstate
  /\ peers' = SelectSeq(peers, LAMBDA k : k # id)
  /\ teardowns' = [teardowns EXCEPT ![id] = @ + 1]

\* Socket.IO drops the socket from the namespace, then fires 'disconnect'
Disconnect(id) ==
  /\ id \in sockets
  /\ sockets' = sockets \ {id}
  /\ DisconnectHandler(id, sockets', {})
  /\ UNCHANGED <<opened, session, transportInfo, producerInfo, consumerInfo,
                 pending, lastReply, dtlsConnected, router>>

\* the same, with close() throwing for some of the peer's transports
DisconnectThrowing(id) ==
  /\ id \in sockets
  /\ sockets' = sockets \ {id}
  /\ \E throwers \in SUBSET Range(session[id].transports) :
       /\ throwers # {}
       /\ DisconnectHandler(id, sockets', throwers)
  /\ UNCHANGED <<opened, session, transportInfo, producerInfo, consumerInfo,
                 pending, lastReply, dtlsConnected, router>>

\* the disconnect handler run once more for a socket that already left
DisconnectAgain(id) ==
  /\ id \in 1..opened
  /\ id \notin sockets
  /\ teardowns[id] < MaxTeardowns
  /\ DisconnectHandler(id, sockets, {})
  /\ UNCHANGED <<sockets, opened, session, transportInfo, producerInfo,
                 consumerInfo, pending, lastReply, dtlsConnected, router>>

\* the disconnect handler of socket id has begun and has not reached its end
TeardownRunning(id) ==
  id \in 1..opened /\ id \notin sockets /\ teardowns[id] = 0

\* the first transport of the list that forEach has not visited yet, 0 if none
NextToClose(list) ==
  IF \E i \in 1..Len(list) : tstate[list[i]] = "open"
  THEN list[CHOOSE i \in 1..Len(list) :
              /\ tstate[list[i]] = "open"
              /\ \A j \in 1..(i - 1) : tstate[list[j]] # "open"]
  ELSE 0

\* (variant: the handler cleans up first and emits participantLeft at its end)
DisconnectStepEmitLast(id) ==
  \/ /\ id \in sockets
     /\ sockets' = sockets \ {id}
     /\ UNCHANGED <<opened, peers, session, transportInfo, tstate, producerInfo,
                    consumerInfo, pending, inbox, lastReply, teardowns,
                    dtlsConnected, router>>
  \/ /\ TeardownRunning(id)
     /\ id \in Range(peers)
     /\ NextToClose(session[id].transports) # 0
     /\ tstate' = [tstate EXCEPT ![NextToClose(session[id].transports)] = "closed"]
     /\ UNCHANGED <<sockets, opened, peers, session, transportInfo, producerInfo,
                    consumerInfo, pending, inbox, lastReply, teardowns,
                    dtlsConnected, router>>
  \/ /\ TeardownRunning(id)
     /\ id \in Range(peers)
     /\ NextToClose(session[id].transports) = 0
     /\ peers' = SelectSeq(peers, LAMBDA k : k # id)
     /\ UNCHANGED <<sockets, opened, session, transportInfo, tstate,
                    producerInfo, consumerInfo, pending, inbox, lastReply,
                    teardowns, dtlsConnected, router>>
  \/ /\ TeardownRunning(id)
     /\ id \notin Range(peers)
     /\ inbox' = IoEmit(inbox, sockets, ParticipantLeftEvent(id))
     /\ teardowns' = [teardowns EXCEPT ![id] = @ + 1]
     /\ UNCHANGED <<sockets, opened, peers, session, transportInfo, tstate,
                    producerInfo, consumerInfo, pending, lastReply,
                    dtlsConnected, router>>

\* socket.on('disconnect') one statement at a time, for a registered peer
\* whose close() calls do not throw: io.emit('participantLeft') as the handler
\* begins, then one t.close() of the forEach loop per step, then peers.delete
DisconnectStep(id) ==
  \/ /\ id \in sockets
     /\ sockets' = sockets \ {id}
     /\ inbox' = IoEmit(inbox, sockets', ParticipantLeftEvent(id))
     /\ UNCHANGED <<opened, peers, session, transportInfo, tstate, producerInfo,
                    consumerInfo, pending, lastReply, teardowns, dtlsConnected,
                    router>>
  \/ /\ TeardownRunning(id)
     /\ id \in Range(peers)
     /\ NextToClose(session[id].transports) # 0
     /\ tstate' = [tstate EXCEPT ![NextToClose(session[id].transports)] = "closed"]
     /\ UNCHANGED <<sockets, opened, peers, session, transportInfo, producerInfo,
                    consumerInfo, pending, inbox, lastReply, teardowns,
                    dtlsConnected, router>>
  \/ /\ TeardownRunning(id)
     /\ id \in Range(peers) => NextToClose(session[id].transports) = 0
     /\ peers' = SelectSeq(peers, LAMBDA k : k # id)
     /\ teardowns' = [teardowns EXCEPT ![id] = @ + 1]
     /\ UNCHANGED <<sockets, opened, session, transportInfo, tstate,
                    producerInfo, consumerInfo, pending, inbox, lastReply,
                    dtlsConnected, router>>

----------------------------------------------------------------------------
(* getRtpCapabilities *)

\* (variant: the router is not tested before its capabilities are sent)
GetRtpCapabilitiesUnchecked(id) ==
  /\ id \in 1..opened
  /\ lastReply' = [OkReply("getRtpCapabilities", 0, 0, <<>>)
                     EXCEPT !.socket = id]
  /\ UNCHANGED <<sockets, opened, peers, session, transportInfo, tstate,
                 producerInfo, consumerInfo, pending, inbox, teardowns,
                 dtlsConnected, router>>

\* socket.on('getRtpCapabilities'): router.rtpCapabilities, or an error when
\* getRouter() returns nothing; the peers Map is not consulted
GetRtpCapabilities(id) ==
  /\ id \in 1..opened
  /\ lastReply' = [(IF router
                     THEN OkReply("getRtpCapabilities", 0, 0, <<>>)
                     ELSE ErrorReply("getRtpCapabilities",
                                     "Router not initialized"))
                     EXCEPT !.socket = id]
  /\ UNCHANGED <<sockets, opened, peers, session, transportInfo, tstate,
                 producerInfo, consumerInfo, pending, inbox, teardowns,
                 dtlsConnected, router>>

----------------------------------------------------------------------------
(* createWebRtcTransport / createRecvTransport *)

\* callback(r) of a request made on socket id
Reply(id, r) == lastReply' = [r EXCEPT !.socket = id]

IsCreateTransport(req) ==
  req.op \in {"createWebRtcTransport", "createRecvTransport"}

\* `await` of an engine call, with at most `bound` calls in flight
AwaitUpTo(req, bound) ==
  /\ BagCardinality(pending) < bound
  /\ pending' = pending (+) SetToBag({req})

Await(req) == AwaitUpTo(req, MaxPending)

\* synchronous part of both transport-creating handlers
CreateTransportRequestUpTo(id, event, type, bound) ==
  /\ id \in 1..opened
  /\ IF id \notin Range(peers)
     THEN /\ Reply(id, ErrorReply(event, "Peer not found"))
          /\ UNCHANGED pending
     ELSE /\ AwaitUpTo(Request(event, id, type, 0, "", 0), bound)
          /\ UNCHANGED lastReply
  /\ UNCHANGED <<sockets, opened, peers, session, transportInfo, tstate,
                 producerInfo, consumerInfo, inbox, teardowns, dtlsConnected,
                 router>>

CreateTransportRequest(id, event, type) ==
  CreateTransportRequestUpTo(id, event, type, MaxPending)

\* socket.on('createWebRtcTransport') for socket.emit('createWebRtcTransport',
\* ack): Socket.IO calls the handler with the acknowledgement as its first
\* argument, so `data` is the function and `callback` is undefined.
\* data.type is not 'recv', the type is 'send'. With no peer found,
\* callback(...) throws a TypeError inside try and again inside catch: nobody
\* is answered
CreateWebRtcTransportAckOnly(id) ==
  /\ id \in 1..opened
  /\ IF id \notin Range(peers)
     THEN UNCHANGED pending
     ELSE Await([Request("createWebRtcTransport", id, "send", 0, "", 0)
                   EXCEPT !.callback = FALSE])
  /\ UNCHANGED <<sockets, opened, peers, session, transportInfo, tstate,
                 producerInfo, consumerInfo, inbox, lastReply, teardowns,
                 dtlsConnected, router>>

\* (variant: data.type is used as the tag as it comes)
CreateWebRtcTransportRawType(id, data) ==
  CreateTransportRequest(id, "createWebRtcTransport", data)

\* socket.on('createWebRtcTransport'): anything but {type:'recv'} means 'send'
CreateWebRtcTransport(id, data) ==
  CreateTransportRequest(id, "createWebRtcTransport",
                         IF data = "recv" THEN "recv" ELSE "send")

\* socket.on('createWebRtcTransport') handled while an earlier transport
\* creation of the same socket is still awaited
CreateWebRtcTransportConcurrent(id, data) ==
  /\ \E req \in DOMAIN pending : IsCreateTransport(req) /\ req.socket = id
  /\ CreateTransportRequestUpTo(id, "createWebRtcTransport",
                                IF data = "recv" THEN "recv" ELSE "send",
                                MaxCreating)

\* (variant: the session is not looked up before the engine is called)
CreateRecvTransportUnchecked(id) ==
  /\ id \in 1..opened
  /\ Await(Request("createRecvTransport", id, "recv", 0, "", 0))
  /\ UNCHANGED <<sockets, opened, peers, session, transportInfo, tstate,
                 producerInfo, consumerInfo, inbox, lastReply, teardowns,
                 dtlsConnected, router>>

\* (variant: createRecvTransport asks the engine for the default, 'send')
CreateRecvTransportSendTag(id) ==
  CreateTransportRequest(id, "createRecvTransport", "send")

\* socket.on('createRecvTransport')
CreateRecvTransport(id) ==
  CreateTransportRequest(id, "createRecvTransport", "recv")

\* (variant: a new transport takes the place of the ones tracked so far)
CreateTransportResolvedReplacing(req) ==
  /\ BagIn(req, pending) /\ IsCreateTransport(req)
  /\ router
  /\ Len(transportInfo) < MaxTransports
  /\ pending' = pending (-) SetToBag({req})
  /\ LET t == Len(transportInfo) + 1 IN
       /\ transportInfo' = Append(transportInfo,
                                  [socketId |-> req.socket, type |-> req.type])
       /\ tstate' = Append(tstate, "open")
       /\ session' = [session EXCEPT ![req.socket].transports = <<t>>]
       /\ Reply(req.socket, OkReply(req.op, t, 0, <<>>))
  /\ UNCHANGED <<sockets, opened, peers, producerInfo, consumerInfo, inbox,
                 teardowns, dtlsConnected, router>>

\* router.createWebRtcTransport resolved (there is a router to call):
\* mediasoup-handler pushes the transport
\* onto the array it was handed, the handler replies with its parameters;
\* with `callback` undefined the call throws a TypeError, the catch block's
\* callback(...) throws another one and the handler's promise rejects
CreateTransportResolvedUpTo(req, bound) ==
  /\ BagIn(req, pending) /\ IsCreateTransport(req)
  /\ router
  /\ Len(transportInfo) < bound
  /\ pending' = pending (-) SetToBag({req})
  /\ LET t == Len(transportInfo) + 1 IN
       /\ transportInfo' = Append(transportInfo,
                                  [socketId |-> req.socket, type |-> req.type])
       /\ tstate' = Append(tstate, "open")
       /\ session' = [session EXCEPT ![req.socket].transports = Append(@, t)]
       /\ IF req.callback
          THEN Reply(req.socket, OkReply(req.op, t, 0, <<>>))
          ELSE UNCHANGED lastReply
  /\ UNCHANGED <<sockets, opened, peers, producerInfo, consumerInfo, inbox,
                 teardowns, dtlsConnected, router>>

CreateTransportResolved(req) == CreateTransportResolvedUpTo(req, MaxTransports)

\* router.createWebRtcTransport rejected: rethrown, caught by the handler
CreateTransportRejected(req) ==
  /\ BagIn(req, pending) /\ IsCreateTransport(req)
  /\ pending' = pending (-) SetToBag({req})
  /\ IF req.callback
     THEN Reply(req.socket,
                ErrorReply(req.op, "Failed to create WebRTC transport"))
     ELSE UNCHANGED lastReply
  /\ UNCHANGED <<sockets, opened, peers, session, transportInfo, tstate,
                 producerInfo, consumerInfo, inbox, teardowns, dtlsConnected,
                 router>>

----------------------------------------------------------------------------
(* connectTransport *)

\* (variant: the transport is looked up among all transports of the router)
ConnectTransportAnyPeer(id, transportId) ==
  /\ id \in 1..opened
  /\ IF id \notin Range(peers)
     THEN /\ Reply(id, ErrorReply("connectTransport", "Peer not found"))
          /\ UNCHANGED pending
     ELSE LET transport == IF transportId \in 1..Len(transportInfo)
                           THEN transportId ELSE 0 IN
       IF transport = 0
       THEN /\ Reply(id, ErrorReply("connectTransport", "Transport not found"))
            /\ UNCHANGED pending
       ELSE /\ Await(Request("connectTransport", id,
                             transportInfo[transport].type, transport, "", 0))
            /\ UNCHANGED lastReply
  /\ UNCHANGED <<sockets, opened, peers, session, transportInfo, tstate,
                 producerInfo, consumerInfo, inbox, teardowns, dtlsConnected,
                 router>>

\* (variant: a 'recv' transport is connected only once the session tracks a
\* 'send' transport)
ConnectTransportSendFirst(id, transportId) ==
  /\ id \in 1..opened
  /\ IF id \notin Range(peers)
     THEN /\ Reply(id, ErrorReply("connectTransport", "Peer not found"))
          /\ UNCHANGED pending
     ELSE LET transport == Find(session[id].transports, {transportId}) IN
       IF transport = 0
       THEN /\ Reply(id, ErrorReply("connectTransport", "Transport not found"))
            /\ UNCHANGED pending
       ELSE IF /\ transportInfo[transport].type = "recv"
               /\ \A t \in Range(session[id].transports) :
                    transportInfo[t].type # "send"
       THEN /\ Reply(id, ErrorReply("connectTransport", "no send transport"))
            /\ UNCHANGED pending
       ELSE /\ Await(Request("connectTransport", id,
                             transportInfo[transport].type, transport, "", 0))
            /\ UNCHANGED lastReply
  /\ UNCHANGED <<sockets, opened, peers, session, transportInfo, tstate,
                 producerInfo, consumerInfo, inbox, teardowns, dtlsConnected,
                 router>>

\* synchronous part of socket.on('connectTransport'), up to
\* `await transport.connect`
ConnectTransport(id, transportId) ==
  /\ id \in 1..opened
  /\ IF id \notin Range(peers)
     THEN /\ Reply(id, ErrorReply("connectTransport", "Peer not found"))
          /\ UNCHANGED pending
     ELSE LET transport == Find(session[id].transports, {transportId}) IN
       IF transport = 0
       THEN /\ Reply(id, ErrorReply("connectTransport", "Transport not found"))
            /\ UNCHANGED pending
       ELSE /\ Await(Request("connectTransport", id,
                             transportInfo[transport].type, transport, "", 0))
            /\ UNCHANGED lastReply
  /\ UNCHANGED <<sockets, opened, peers, session, transportInfo, tstate,
                 producerInfo, consumerInfo, inbox, teardowns, dtlsConnected,
                 router>>

\* transport.connect resolved: the handler replies { connected: true }
ConnectTransportResolved(req) ==
  /\ BagIn(req, pending) /\ req.op = "connectTransport"
  /\ pending' = pending (-) SetToBag({req})
  /\ dtlsConnected' = dtlsConnected \cup {req.transport}
  /\ Reply(req.socket, OkReply("connectTransport", 0, 0, <<>>))
  /\ UNCHANGED <<sockets, opened, peers, session, transportInfo, tstate,
                 producerInfo, consumerInfo, inbox, teardowns, router>>

\* transport.connect rejected: rethrown by connectTransport, caught by the
\* handler
ConnectTransportRejected(req) ==
  /\ BagIn(req, pending) /\ req.op = "connectTransport"
  /\ pending' = pending (-) SetToBag({req})
  /\ Reply(req.socket, ErrorReply("connectTransport",
                                  "Failed to connect transport"))
  /\ UNCHANGED <<sockets, opened, peers, session, transportInfo, tstate,
                 producerInfo, consumerInfo, inbox, teardowns, dtlsConnected,
                 router>>

----------------------------------------------------------------------------
(* produce *)

\* (variant: a transport that was never connected is refused)
ProduceConnectedOnly(id, transportId, kind) ==
  /\ id \in 1..opened
  /\ IF id \notin Range(peers)
     THEN /\ Reply(id, ErrorReply("produce", "Peer not found"))
          /\ UNCHANGED pending
     ELSE LET transport == Find(session[id].transports, {transportId}) IN
       IF transport = 0
       THEN /\ Reply(id, ErrorReply("produce", "Send transport not found"))
            /\ UNCHANGED pending
       ELSE IF transportInfo[transport].type # "send"
       THEN /\ Reply(id, ErrorReply("produce", "not a 'send' transport"))
            /\ UNCHANGED pending
       ELSE IF transport \notin dtlsConnected
       THEN /\ Reply(id, ErrorReply("produce", "not connected"))
            /\ UNCHANGED pending
       ELSE /\ Await(Request("produce", id, "send", transport, kind, 0))
            /\ UNCHANGED lastReply
  /\ UNCHANGED <<sockets, opened, peers, session, transportInfo, tstate,
                 producerInfo, consumerInfo, inbox, teardowns, dtlsConnected,
                 router>>

\* (variant: the appData.type of the transport found is not looked at)
ProduceAnyTag(id, transportId, kind) ==
  /\ id \in 1..opened
  /\ IF id \notin Range(peers)
     THEN /\ Reply(id, ErrorReply("produce", "Peer not found"))
          /\ UNCHANGED pending
     ELSE LET transport == Find(session[id].transports, {transportId}) IN
       IF transport = 0
       THEN /\ Reply(id, ErrorReply("produce", "Send transport not found"))
            /\ UNCHANGED pending
       ELSE /\ Await(Request("produce", id, "send", transport, kind, 0))
            /\ UNCHANGED lastReply
  /\ UNCHANGED <<sockets, opened, peers, session, transportInfo, tstate,
                 producerInfo, consumerInfo, inbox, teardowns, dtlsConnected,
                 router>>

\* (variant: the transport is looked up among all the router's transports)
ProduceOnAnyTransport(id, transportId, kind) ==
  /\ id \in 1..opened
  /\ IF id \notin Range(peers)
     THEN /\ Reply(id, ErrorReply("produce", "Peer not found"))
          /\ UNCHANGED pending
     ELSE IF transportId \notin 1..Len(transportInfo)
       THEN /\ Reply(id, ErrorReply("produce", "Send transport not found"))
            /\ UNCHANGED pending
       ELSE IF transportInfo[transportId].type # "send"
       THEN /\ Reply(id, ErrorReply("produce", "not a 'send' transport"))
            /\ UNCHANGED pending
       ELSE /\ Await(Request("produce", id, "send", transportId, kind, 0))
            /\ UNCHANGED lastReply
  /\ UNCHANGED <<sockets, opened, peers, session, transportInfo, tstate,
                 producerInfo, consumerInfo, inbox, teardowns, dtlsConnected,
                 router>>

\* synchronous part of socket.on('produce'), up to `await transport.produce`,
\* for a request { transportId, kind, rtpParameters, appData } whose
\* rtpParameters hold the metadata rtpAppData: createProducer is handed the
\* transport, kind and rtpParameters; appData stays in the closure
ProduceWithAppData(id, transportId, kind, rtpAppData, appData) ==
  /\ id \in 1..opened
  /\ IF id \notin Range(peers)
     THEN /\ Reply(id, ErrorReply("produce", "Peer not found"))
          /\ UNCHANGED pending
     ELSE LET transport == Find(session[id].transports, {transportId}) IN
       IF transport = 0
       THEN /\ Reply(id, ErrorReply("produce", "Send transport not found"))
            /\ UNCHANGED pending
       ELSE IF transportInfo[transport].type # "send"
       THEN /\ Reply(id, ErrorReply("produce", "not a 'send' transport"))
            /\ UNCHANGED pending
       ELSE /\ Await([Request("produce", id, "send", transport, kind, 0)
                        EXCEPT !.appData = appData, !.rtpAppData = rtpAppData])
            /\ UNCHANGED lastReply
  /\ UNCHANGED <<sockets, opened, peers, session, transportInfo, tstate,
                 producerInfo, consumerInfo, inbox, teardowns, dtlsConnected,
                 router>>

\* socket.on('produce') for a request that carries no metadata
Produce(id, transportId, kind) ==
  ProduceWithAppData(id, transportId, kind, NoAppData, NoAppData)

\* transport.produce resolved: createProducer pushes the producer onto the
\* array it was handed; the handler replies, then broadcasts newProducer
ProduceResolvedUpTo(req, bound) ==
  /\ BagIn(req, pending) /\ req.op = "produce"
  /\ Len(producerInfo) < bound
  /\ pending' = pending (-) SetToBag({req})
  /\ LET p == Len(producerInfo) + 1 IN
       /\ producerInfo' = Append(producerInfo,
            [kind |-> req.kind, transport |-> req.transport,
             socketId |-> transportInfo[req.transport].socketId,
             rtpAppData |-> req.rtpAppData,
             appData |-> ProducerAppData(req.rtpAppData,
                           transportInfo[req.transport].socketId)])
       /\ session' = [session EXCEPT ![req.socket].producers = Append(@, p)]
       /\ Reply(req.socket, OkReply("produce", p, 0, <<>>))
       /\ inbox' = BroadcastEmit(inbox, sockets, req.socket,
            NewProducerEventWith(req.socket, p, req.kind,
                                 producerInfo'[p].appData))
  /\ UNCHANGED <<sockets, opened, peers, transportInfo, tstate, consumerInfo,
                 teardowns, dtlsConnected, router>>

ProduceResolved(req) == ProduceResolvedUpTo(req, MaxProducers)

\* transport.produce resolved and socket.broadcast.emit throws: callback({id})
\* has run by then, the catch block runs the callback a second time with the
\* error; the producer stays pushed, no event is delivered
ProduceResolvedEmitThrows(req) ==
  /\ BagIn(req, pending) /\ req.op = "produce"
  /\ Len(producerInfo) < MaxProducers
  /\ pending' = pending (-) SetToBag({req})
  /\ LET p == Len(producerInfo) + 1 IN
       /\ producerInfo' = Append(producerInfo,
            [kind |-> req.kind, transport |-> req.transport,
             socketId |-> transportInfo[req.transport].socketId,
             rtpAppData |-> req.rtpAppData,
             appData |-> ProducerAppData(req.rtpAppData,
                           transportInfo[req.transport].socketId)])
       /\ session' = [session EXCEPT ![req.socket].producers = Append(@, p)]
       /\ lastReply' = [ErrorReply("produce", "Failed to produce media")
                          EXCEPT !.socket = req.socket, !.calls = 2]
  /\ UNCHANGED <<sockets, opened, peers, transportInfo, tstate, consumerInfo,
                 inbox, teardowns, dtlsConnected, router>>

\* (variant: no try/catch around the await, the rejection is answered by nobody)
ProduceRejectedUnanswered(req) ==
  /\ BagIn(req, pending) /\ req.op = "produce"
  /\ pending' = pending (-) SetToBag({req})
  /\ UNCHANGED <<sockets, opened, peers, session, transportInfo, tstate,
                 producerInfo, consumerInfo, inbox, lastReply, teardowns,
                 dtlsConnected, router>>

\* transport.produce rejected: rethrown by createProducer, caught by the handler
ProduceRejected(req) ==
  /\ BagIn(req, pending) /\ req.op = "produce"
  /\ pending' = pending (-) SetToBag({req})
  /\ Reply(req.socket, ErrorReply("produce", "Failed to produce media"))
  /\ UNCHANGED <<sockets, opened, peers, session, transportInfo, tstate,
                 producerInfo, consumerInfo, inbox, teardowns, dtlsConnected,
                 router>>

----------------------------------------------------------------------------
(* consume *)

\* (variant: only a transport whose close() threw counts as closed)
ProducerClosedOnThrow(p) == tstate[producerInfo[p].transport] = "closeThrew"

\* the engine closes a producer together with its transport
ProducerClosed(p) == tstate[producerInfo[p].transport] = "closed"

\* (variant: the capabilities of the client are not looked at)
CanConsumeAnyCapabilities(producerId, rtpCapabilities) ==
  /\ producerId \in 1..Len(producerInfo)
  /\ tstate[producerInfo[producerId].transport] # "closed"

\* router.canConsume({ producerId, rtpCapabilities })
CanConsume(producerId, rtpCapabilities) ==
  /\ producerId \in 1..Len(producerInfo)
  /\ ~ProducerClosed(producerId)
  /\ rtpCapabilities = "compatible"

\* (variant: with no transportId the first transport is taken, whatever its tag)
ConsumeTransportAnyTag(id, transportId) ==
  LET recv == {t \in Range(session[id].transports) :
                 transportInfo[t].type = "recv"} IN
  IF transportId # NoTransportId
  THEN Find(session[id].transports, {transportId} \cap recv)
  ELSE Find(session[id].transports, Range(session[id].transports))

\* (variant: with no transport named, the peer's latest 'recv' transport)
ConsumeTransportLatest(id, transportId) ==
  LET recv == {t \in Range(session[id].transports) :
                 transportInfo[t].type = "recv"} IN
  IF transportId # NoTransportId
  THEN Find(session[id].transports, {transportId} \cap recv)
  ELSE IF recv = {} THEN 0
  ELSE CHOOSE t \in recv : \A u \in recv : u <= t

\* the transport socket.on('consume') picks: the named one if it is a 'recv'
\* transport of the peer, the first 'recv' transport if none is named
ConsumeTransport(id, transportId) ==
  LET recv == {t \in Range(session[id].transports) :
                 transportInfo[t].type = "recv"} IN
  IF transportId # NoTransportId
  THEN Find(session[id].transports, {transportId} \cap recv)
  ELSE Find(session[id].transports, recv)

\* synchronous part of socket.on('consume'), up to `await transport.consume`
Consume(id, producerId, rtpCapabilities, transportId) ==
  /\ id \in 1..opened
  /\ IF id \notin Range(peers)
     THEN /\ Reply(id, ErrorReply("consume", "Peer not found"))
          /\ UNCHANGED pending
     ELSE LET transport == ConsumeTransport(id, transportId) IN
       IF transport = 0
       THEN /\ Reply(id, ErrorReply("consume",
                       IF transportId # NoTransportId
                       THEN "Receiving transport not found or not 'recv'"
                       ELSE "No receiving transport found"))
            /\ UNCHANGED pending
       ELSE IF ~CanConsume(producerId, rtpCapabilities)
       THEN /\ Reply(id, ErrorReply("consume", "cannot consume producer"))
            /\ UNCHANGED pending
       ELSE /\ Await([Request("consume", id, "recv", transport, "", producerId)
                      EXCEPT !.transportId = transportId])
            /\ UNCHANGED lastReply
  /\ UNCHANGED <<sockets, opened, peers, session, transportInfo, tstate,
                 producerInfo, consumerInfo, inbox, teardowns, dtlsConnected,
                 router>>

\* (variant: the consumer is created and described but not pushed)
ConsumeResolvedUntracked(req) ==
  /\ BagIn(req, pending) /\ req.op = "consume"
  /\ Len(consumerInfo) < MaxConsumers
  /\ pending' = pending (-) SetToBag({req})
  /\ LET c == Len(consumerInfo) + 1 IN
       /\ consumerInfo' = Append(consumerInfo,
            [producerId |-> req.producerId, transport |-> req.transport,
             socketId |-> transportInfo[req.transport].socketId])
       /\ session' = session
       /\ Reply(req.socket, OkReply("consume", c, req.producerId, <<>>))
  /\ UNCHANGED <<sockets, opened, peers, transportInfo, tstate, producerInfo,
                 inbox, teardowns, dtlsConnected, router>>

\* transport.consume resolved: createConsumer pushes the consumer onto the
\* array it was handed, the handler replies with the consumer's description
ConsumeResolvedUpTo(req, bound) ==
  /\ BagIn(req, pending) /\ req.op = "consume"
  /\ Len(consumerInfo) < bound
  /\ pending' = pending (-) SetToBag({req})
  /\ LET c == Len(consumerInfo) + 1 IN
       /\ consumerInfo' = Append(consumerInfo,
            [producerId |-> req.producerId, transport |-> req.transport,
             socketId |-> transportInfo[req.transport].socketId])
       /\ session' = [session EXCEPT ![req.socket].consumers = Append(@, c)]
       /\ Reply(req.socket, OkReply("consume", c, req.producerId, <<>>))
  /\ UNCHANGED <<sockets, opened, peers, transportInfo, tstate, producerInfo,
                 inbox, teardowns, dtlsConnected, router>>

ConsumeResolved(req) == ConsumeResolvedUpTo(req, MaxConsumers)

\* transport.consume rejected: rethrown by createConsumer, caught by the handler
ConsumeRejected(req) ==
  /\ BagIn(req, pending) /\ req.op = "consume"
  /\ pending' = pending (-) SetToBag({req})
  /\ Reply(req.socket, ErrorReply("consume", "Failed to consume producer"))
  /\ UNCHANGED <<sockets, opened, peers, session, transportInfo, tstate,
                 producerInfo, consumerInfo, inbox, teardowns, dtlsConnected,
                 router>>

----------------------------------------------------------------------------
(* getProducers *)

\* (variant: the inner loop skips the first producer of the peer)
ProducerEntriesSkipFirst(id) ==
  [k \in 1..(Len(session[id].producers) - 1) |->
     [socketId |-> id,
      producerId |-> session[id].producers[k + 1],
      kind |-> producerInfo[session[id].producers[k + 1]].kind,
      appData |-> producerInfo[session[id].producers[k + 1]].appData]]

\* inner loop of getProducers: one entry per producer of peer id, in list order
ProducerEntries(id) ==
  [k \in 1..Len(session[id].producers) |->
     [socketId |-> id,
      producerId |-> session[id].producers[k],
      kind |-> producerInfo[session[id].producers[k]].kind,
      appData |-> producerInfo[session[id].producers[k]].appData]]

\* (variant: the outer loop does not skip the requester)
RECURSIVE ProducerListAll(_, _)
ProducerListAll(i, requester) ==
  IF i > Len(peers) THEN <<>>
  ELSE ProducerEntries(peers[i]) \o ProducerListAll(i + 1, requester)

\* outer loop of getProducers over peers.entries(), from the i-th key on,
\* skipping the requester
RECURSIVE ProducerList(_, _)
ProducerList(i, requester) ==
  IF i > Len(peers) THEN <<>>
  ELSE (IF peers[i] # requester THEN ProducerEntries(peers[i]) ELSE <<>>)
       \o ProducerList(i + 1, requester)

\* socket.on('getProducers')
GetProducers(id) ==
  /\ id \in 1..opened
  /\ Reply(id, OkReply("getProducers", 0, 0, ProducerList(1, id)))
  /\ UNCHANGED <<sockets, opened, peers, session, transportInfo, tstate,
                 producerInfo, consumerInfo, pending, inbox, teardowns,
                 dtlsConnected, router>>

----------------------------------------------------------------------------
----------------------------------------------------------------------------
(* the browser client *)

\* A reply reaches the callback of the client that asked in the step in which
\* the server sends it; events wait in the inbox until their listener runs.
\* The DTLS handshake mediasoup-client starts on the first produce() or
\* consume() of a transport is left out: the server's produce and consume do
\* not depend on it.

\* localStream.getTracks() of getUserMedia({ video: true, audio: true })
Tracks == <<"audio", "video">>

ClientOnline(id) == id \in sockets /\ client[id].pc # "left"

\* joinBtn.onclick up to `socket.emit('getRtpCapabilities', res)`
JoinBtnOnClickUpTo(id, bound) ==
  /\ ClientOnline(id)
  /\ client[id].pc = "idle"
  /\ client' = [client EXCEPT ![id].pc = "getRtpCapabilities",
                              ![id].tracks = SubSeq(Tracks, 1, bound)]
  /\ UNCHANGED <<sockets, opened, peers, session, transportInfo, tstate,
                 producerInfo, consumerInfo, pending, inbox, lastReply,
                 teardowns, dtlsConnected, router>>

JoinBtnOnClick(id) == JoinBtnOnClickUpTo(id, Len(Tracks))

\* step 1-2: the server answers getRtpCapabilities, the Device is loaded and
\* createWebRtcTransport { type: 'send' } is emitted; an error object instead
\* of capabilities makes device.load throw into the catch block
JoinGetRtpCapabilities(id) ==
  /\ ClientOnline(id)
  /\ client[id].pc = "getRtpCapabilities"
  /\ GetRtpCapabilities(id)
  /\ client' = [client EXCEPT
                  ![id].device = TRUE,
                  ![id].pc = IF lastReply'.ok THEN "createWebRtcTransport"
                             ELSE "idle"]

\* the server takes up one of the two transport requests of the join function
JoinCreateTransport(id) ==
  /\ ClientOnline(id)
  /\ \/ /\ client[id].pc = "createWebRtcTransport"
        /\ CreateWebRtcTransport(id, "send")
     \/ /\ client[id].pc = "createRecvTransport"
        /\ CreateRecvTransport(id)
  /\ client' = [client EXCEPT ![id].pc = "transportInfo"]

\* steps 3-4: the transport parameters arrive: device.createSendTransport,
\* then createRecvTransport is emitted; or device.createRecvTransport, then
\* sendTransport.produce({ track }) emits produce
JoinTransportCreated(req) ==
  /\ CreateTransportResolvedUpTo(req, MaxJoinTransports)
  /\ LET id == req.socket IN
       IF ClientOnline(id) /\ client[id].pc = "transportInfo"
       THEN client' = [client EXCEPT
              ![id].sendTransport = IF req.type = "send" THEN lastReply'.id ELSE @,
              ![id].recvTransport = IF req.type = "recv" THEN lastReply'.id ELSE @,
              ![id].pc = IF req.type = "send" THEN "createRecvTransport"
                         ELSE IF client[id].tracks # <<>> THEN "produce"
                         ELSE "getProducers"]
       ELSE client' = client

\* step 5, the 'produce' listener of sendTransport: the server takes up
\* produce { transportId: sendTransport.id, kind, rtpParameters, appData }
JoinProduce(id) ==
  /\ ClientOnline(id)
  /\ client[id].pc = "produce"
  /\ Produce(id, client[id].sendTransport, Head(client[id].tracks))
  /\ client' = [client EXCEPT ![id].pc = IF pending' # pending THEN "producer"
                                         ELSE "idle"]

\* the producer id arrives: producers.push(producer), next track, and after
\* the last one getProducers is emitted
JoinProduced(req) ==
  /\ ProduceResolvedUpTo(req, MaxJoinProducers)
  /\ LET id == req.socket IN
       IF ClientOnline(id) /\ client[id].pc = "producer"
       THEN client' = [client EXCEPT
              ![id].tracks = Tail(@),
              ![id].pc = IF Len(client[id].tracks) > 1 THEN "produce"
                         ELSE "getProducers"]
       ELSE client' = client

\* the `for ... of existingProducers` loop between two consume requests: with
\* nothing left the join function returns
AfterEntry(c, rest) ==
  [c EXCEPT !.existing = rest,
            !.pc = IF rest = <<>> THEN "joined" ELSE "consume"]

\* step 6: the server answers getProducers
JoinGetProducers(id) ==
  /\ ClientOnline(id)
  /\ client[id].pc = "getProducers"
  /\ GetProducers(id)
  /\ client' = [client EXCEPT ![id] = AfterEntry(@, lastReply'.list)]

\* the loop body up to the consume request, which the server takes up:
\* `if (!device || !recvTransport) continue`, and an error reply is skipped
JoinConsume(id) ==
  /\ ClientOnline(id)
  /\ client[id].pc = "consume"
  /\ Consume(id, Head(client[id].existing).producerId, "compatible",
             client[id].recvTransport)
  /\ client' = [client EXCEPT ![id] =
                  IF pending' # pending THEN [@ EXCEPT !.pc = "consumer"]
                  ELSE AfterEntry(@, Tail(@.existing))]

\* addVideo(remoteStream, remoteSocketId): a card is appended to the grid and
\* participants[remoteSocketId] is set
AddVideo(c, card) ==
  [c EXCEPT !.consumers = Append(@, card),
            !.participants = @ \cup {card.socketId}]

\* the consumer parameters arrive at whichever asked for them, the loop of the
\* join function or the newProducer listener: recvTransport.consume(...),
\* which the browser is taken to resolve before the page handles anything
\* else, then addVideo; the card is labelled with the socketId of the event or
\* list entry, which is the producer's owner
Consumed(req) ==
  /\ ConsumeResolvedUpTo(req, MaxJoinConsumers)
  /\ LET id == req.socket
         card == [producerId |-> lastReply'.producerId,
                  socketId |-> producerInfo[req.producerId].socketId]
     IN
       IF ~ClientOnline(id) THEN client' = client
       ELSE IF client[id].pc = "consumer"
       THEN client' = [client EXCEPT ![id] =
              AfterEntry(AddVideo(@, card), Tail(@.existing))]
       ELSE client' = [client EXCEPT ![id] = AddVideo(@, card)]

\* (variant: the listener acts only once the join function has returned)
OnNewProducerAfterJoin(id) ==
  /\ ClientOnline(id)
  /\ client[id].handled < Len(inbox[id])
  /\ LET ev == inbox[id][client[id].handled + 1] IN
       /\ ev.name = "newProducer"
       /\ IF client[id].pc # "joined"
          THEN UNCHANGED <<sockets, opened, peers, session, transportInfo,
                           tstate, producerInfo, consumerInfo, pending, inbox,
                           lastReply, teardowns, dtlsConnected, router>>
          ELSE Consume(id, ev.producerId, "compatible", client[id].recvTransport)
  /\ client' = [client EXCEPT ![id].handled = @ + 1]

\* socket.on('newProducer'): ignored unless device and recvTransport are set,
\* else a consume request, which the server takes up
OnNewProducer(id) ==
  /\ ClientOnline(id)
  /\ client[id].handled < Len(inbox[id])
  /\ LET ev == inbox[id][client[id].handled + 1] IN
       /\ ev.name = "newProducer"
       /\ IF ~client[id].device \/ client[id].recvTransport = 0
          THEN UNCHANGED <<sockets, opened, peers, session, transportInfo,
                           tstate, producerInfo, consumerInfo, pending, inbox,
                           lastReply, teardowns, dtlsConnected, router>>
          ELSE Consume(id, ev.producerId, "compatible", client[id].recvTransport)
  /\ client' = [client EXCEPT ![id].handled = @ + 1]

\* the cards without the first one whose data-label is socketId (querySelector)
RemoveFirst(list, socketId) ==
  IF \E i \in 1..Len(list) : list[i].socketId = socketId
  THEN LET first == CHOOSE i \in 1..Len(list) :
                      /\ list[i].socketId = socketId
                      /\ \A j \in 1..(i - 1) : list[j].socketId # socketId
       IN SubSeq(list, 1, first - 1) \o SubSeq(list, first + 1, Len(list))
  ELSE list

\* socket.on('participantLeft'): document.querySelector finds the first video
\* whose data-label is the socket id and its card is removed; the key is
\* deleted from `participants`
OnParticipantLeft(id) ==
  /\ ClientOnline(id)
  /\ client[id].handled < Len(inbox[id])
  /\ LET ev == inbox[id][client[id].handled + 1] IN
       /\ ev.name = "participantLeft"
       /\ client' = [client EXCEPT
            ![id].handled = @ + 1,
            ![id].consumers =
               RemoveFirst(@, ev.socketId),
            ![id].participants = @ \ {ev.socketId}]
  /\ UNCHANGED <<sockets, opened, peers, session, transportInfo, tstate,
                 producerInfo, consumerInfo, pending, inbox, lastReply,
                 teardowns, dtlsConnected, router>>

\* leaveBtn.onclick (the button shows from the start of the join function):
\* producers and transports closed, the grid cleared, socket.disconnect()
LeaveBtnOnClick(id) ==
  /\ ClientOnline(id)
  /\ client[id].pc # "idle"
  /\ client' = [client EXCEPT ![id] =
                  [@ EXCEPT !.pc = "left", !.sendTransport = 0,
                            !.recvTransport = 0, !.tracks = <<>>,
                            !.existing = <<>>,
                            !.consumers = <<>>, !.participants = {}]]
  /\ UNCHANGED <<sockets, opened, peers, session, transportInfo, tstate,
                 producerInfo, consumerInfo, pending, inbox, lastReply,
                 teardowns, dtlsConnected, router>>

\* the server learns of the socket.disconnect() of a client that left
SocketDisconnect(id) ==
  /\ client[id].pc = "left"
  /\ Disconnect(id)
  /\ UNCHANGED client

----------------------------------------------------------------------------
Requests == DOMAIN pending

NextRegistry ==
  \/ Connection /\ UNCHANGED client
  \/ \E id \in PeerIds : Disconnect(id) /\ UNCHANGED client

NextTransports ==
  \/ \E id \in sockets, data \in TransportData : CreateWebRtcTransport(id, data)
       /\ UNCHANGED client
  \/ \E id \in sockets : CreateRecvTransport(id) /\ UNCHANGED client
  \/ \E req \in Requests : CreateTransportResolved(req) /\ UNCHANGED client
  \/ \E req \in Requests : CreateTransportRejected(req) /\ UNCHANGED client

NextConnect ==
  \/ \E id \in sockets, t \in TransportIds : ConnectTransport(id, t)
       /\ UNCHANGED client
  \/ \E req \in Requests : ConnectTransportResolved(req) /\ UNCHANGED client
  \/ \E req \in Requests : ConnectTransportRejected(req) /\ UNCHANGED client

NextProduce ==
  \/ \E id \in sockets, t \in TransportIds, kind \in Kinds : Produce(id, t, kind)
       /\ UNCHANGED client
  \/ \E req \in Requests : ProduceResolved(req) /\ UNCHANGED client
  \/ \E req \in Requests : ProduceRejected(req) /\ UNCHANGED client

NextProducers ==
  \/ NextProduce
  \/ \E id \in sockets : GetProducers(id) /\ UNCHANGED client

NextConsumers ==
  \/ \E id \in sockets, p \in ProducerIds, caps \in Capabilities,
        t \in TransportIds \cup {NoTransportId} : Consume(id, p, caps, t)
       /\ UNCHANGED client
  \/ \E req \in Requests : ConsumeResolved(req) /\ UNCHANGED client
  \/ \E req \in Requests : ConsumeRejected(req) /\ UNCHANGED client

Next == NextRegistry \/ NextTransports \/ NextProducers \/ NextConsumers

\* the signaling layer: registry, transports, producers and consumers
\* (connectTransport, which touches no session, is part of SpecConnect)
Spec == Init /\ [][Next]_vars

\* registry and transports, with transports whose close() throws
NextTeardown ==
  \/ NextRegistry
  \/ NextTransports
  \/ \E id \in PeerIds : DisconnectThrowing(id) /\ UNCHANGED client

SpecTeardown == Init /\ [][NextTeardown]_vars

\* registry and transports, with the disconnect handler run again
NextRedelivery ==
  \/ NextRegistry
  \/ NextTransports
  \/ \E id \in PeerIds : DisconnectAgain(id) /\ UNCHANGED client

SpecRedelivery == Init /\ [][NextRedelivery]_vars

\* no disconnect handler is between two of its statements
Quiet == \A id \in PeerIds : ~TeardownRunning(id)

\* connections and transports, with the disconnect handler taken one
\* statement at a time; the handler is synchronous, so while one runs no
\* other handler does
NextTeardownSteps ==
  \/ Quiet /\ Connection /\ UNCHANGED client
  \/ Quiet /\ NextTransports
  \/ \E id \in PeerIds :
       /\ Quiet \/ TeardownRunning(id)
       /\ DisconnectStep(id)
       /\ UNCHANGED client

SpecTeardownSteps == Init /\ [][NextTeardownSteps]_vars

\* registry, transports and producers, with connectTransport
NextConnecting == NextRegistry \/ NextTransports \/ NextConnect \/ NextProducers

SpecConnect == Init /\ [][NextConnecting]_vars

\* requests handled on a socket after its disconnect handler has run
NextLate ==
  \E id \in (1..opened) \ sockets :
    \/ \E data \in TransportData : CreateWebRtcTransport(id, data)
         /\ UNCHANGED client
    \/ CreateRecvTransport(id) /\ UNCHANGED client
    \/ \E t \in TransportIds : ConnectTransport(id, t) /\ UNCHANGED client
    \/ \E t \in TransportIds, kind \in Kinds : Produce(id, t, kind)
         /\ UNCHANGED client
    \/ \E p \in ProducerIds, caps \in Capabilities,
          t \in TransportIds \cup {NoTransportId} : Consume(id, p, caps, t)
         /\ UNCHANGED client

\* registry, transports and producers, with requests arriving late
NextLateRequests == NextRegistry \/ NextTransports \/ NextProduce \/ NextLate

SpecLateRequests == Init /\ [][NextLateRequests]_vars

\* registry, transports and produce, with a broadcast that throws
NextBroadcastFailure ==
  \/ NextRegistry
  \/ NextTransports
  \/ NextProduce
  \/ \E req \in Requests : ProduceResolvedEmitThrows(req) /\ UNCHANGED client

SpecBroadcastFailure == Init /\ [][NextBroadcastFailure]_vars

\* registry and transports, with getRtpCapabilities, from before the router
\* exists
NextStartup ==
  \/ StartMediasoup /\ UNCHANGED client
  \/ NextRegistry
  \/ NextTransports
  \/ \E id \in sockets : GetRtpCapabilities(id) /\ UNCHANGED client

SpecStartup == InitStartup /\ [][NextStartup]_vars

\* produce requests with and without metadata, and getProducers
NextAppData ==
  \/ NextRegistry
  \/ NextTransports
  \/ \E id \in sockets, t \in TransportIds, kind \in Kinds,
        rtpAppData \in AppDatas, appData \in AppDatas :
       ProduceWithAppData(id, t, kind, rtpAppData, appData) /\ UNCHANGED client
  \/ \E req \in Requests : ProduceResolved(req) /\ UNCHANGED client
  \/ \E req \in Requests : ProduceRejected(req) /\ UNCHANGED client
  \/ \E id \in sockets : GetProducers(id) /\ UNCHANGED client

SpecAppData == Init /\ [][NextAppData]_vars

\* produce requests whose rtpParameters.appData and appData may bring a
\* socketId key, and getProducers; the engine accepts every produce
NextClaimedSocketId ==
  \/ NextRegistry
  \/ NextTransports
  \/ \E id \in sockets, t \in TransportIds,
        rtpAppData \in ClaimingAppDatas, appData \in ClaimingAppDatas :
       ProduceWithAppData(id, t, "video", rtpAppData, appData)
         /\ UNCHANGED client
  \/ \E req \in Requests : ProduceResolved(req) /\ UNCHANGED client
  \/ \E id \in sockets : GetProducers(id) /\ UNCHANGED client

SpecClaimedSocketId == Init /\ [][NextClaimedSocketId]_vars

\* connected peers using every handler that looks a transport up by id
NextOwnership ==
  \/ Connection /\ UNCHANGED client
  \/ NextTransports
  \/ NextConnect
  \/ NextProduce
  \/ NextConsumers

SpecOwnership == Init /\ [][NextOwnership]_vars

\* connections that reuse a registered id
NextReconnect ==
  \/ NextRegistry
  \/ NextTransports
  \/ \E id \in PeerIds : ConnectionAgain(id) /\ UNCHANGED client

SpecReconnect == Init /\ [][NextReconnect]_vars

\* getRtpCapabilities, transports, connectTransport and produce, in any order
NextAnyOrder ==
  \/ NextRegistry
  \/ NextTransports
  \/ NextConnect
  \/ NextProduce
  \/ \E id \in sockets : GetRtpCapabilities(id) /\ UNCHANGED client

SpecAnyOrder == Init /\ [][NextAnyOrder]_vars

\* peers that hold up to MaxChoiceTransports transports between them, produce
\* up to MaxChoiceProducers video tracks and consume with capabilities the
\* router accepts; the engine accepts every call and nobody disconnects
NextRecvChoice ==
  \/ Connection /\ UNCHANGED client
  \/ \E id \in sockets, data \in TransportData : CreateWebRtcTransport(id, data)
       /\ UNCHANGED client
  \/ \E req \in Requests : CreateTransportResolvedUpTo(req, MaxChoiceTransports)
       /\ UNCHANGED client
  \/ \E id \in sockets, t \in 1..MaxChoiceTransports :
       Produce(id, t, "video") /\ UNCHANGED client
  \/ \E req \in Requests : ProduceResolvedUpTo(req, MaxChoiceProducers)
       /\ UNCHANGED client
  \/ \E id \in sockets, p \in 1..MaxChoiceProducers,
        t \in (1..MaxChoiceTransports) \cup {NoTransportId} :
       Consume(id, p, "compatible", t) /\ UNCHANGED client
  \/ \E req \in Requests : ConsumeResolved(req) /\ UNCHANGED client

SpecRecvChoice == Init /\ [][NextRecvChoice]_vars

\* registry and transports, with createWebRtcTransport requests that carry
\* an acknowledgement and no payload
NextAckOnly ==
  \/ NextRegistry
  \/ NextTransports
  \/ \E id \in sockets : CreateWebRtcTransportAckOnly(id) /\ UNCHANGED client

SpecAckOnly == Init /\ [][NextAckOnly]_vars

\* registry and transports, with overlapping createWebRtcTransport requests
NextConcurrent ==
  \/ NextRegistry
  \/ NextTransports
  \/ \E id \in sockets, data \in TransportData :
       CreateWebRtcTransportConcurrent(id, data) /\ UNCHANGED client

SpecConcurrent == Init /\ [][NextConcurrent]_vars

\* what the network, the server and the pages do without a user
JoinSteps ==
  \/ \E id \in sockets : JoinGetRtpCapabilities(id)
  \/ \E id \in sockets : JoinCreateTransport(id)
  \/ \E req \in Requests : JoinTransportCreated(req)
  \/ \E id \in sockets : JoinProduce(id)
  \/ \E req \in Requests : JoinProduced(req)
  \/ \E id \in sockets : JoinGetProducers(id)
  \/ \E id \in sockets : JoinConsume(id)
  \/ \E req \in Requests : Consumed(req)
  \/ \E id \in sockets : OnNewProducer(id)
  \/ \E id \in sockets : OnParticipantLeft(id)
  \/ \E id \in sockets : SocketDisconnect(id)

\* browser clients that join and leave against the server; the engine accepts
\* every call, and of a client's tracks the first MaxLeaveTracks are followed
NextJoin ==
  \/ Connection /\ UNCHANGED client
  \/ \E id \in sockets : JoinBtnOnClickUpTo(id, MaxLeaveTracks)
  \/ \E id \in sockets : LeaveBtnOnClick(id)
  \/ JoinSteps

SpecJoin == Init /\ [][NextJoin]_vars

\* the same where no step that needs no user waits forever: a message sent
\* is delivered and handled, an engine call resolves, a listener runs
SpecJoinFair == SpecJoin /\ WF_vars(JoinSteps)

\* the same clients with all their tracks, where a participant connects only
\* when the page of everyone connected has finished its join function
NextLatecomer ==
  \/ /\ \A id \in sockets : client[id].pc = "joined"
     /\ Connection
     /\ UNCHANGED client
  \/ \E id \in sockets : JoinBtnOnClick(id)
  \/ \E id \in sockets : LeaveBtnOnClick(id)
  \/ JoinSteps

SpecLatecomer == Init /\ [][NextLatecomer]_vars

ArriveSteps ==
  \/ \E id \in sockets : JoinGetRtpCapabilities(id)
  \/ \E id \in sockets : JoinCreateTransport(id)
  \/ \E req \in Requests : JoinTransportCreated(req)
  \/ \E id \in sockets : JoinProduce(id)
  \/ \E req \in Requests : JoinProduced(req)
  \/ \E id \in sockets : JoinGetProducers(id)
  \/ \E id \in sockets : JoinConsume(id)
  \/ \E req \in Requests : Consumed(req)
  \/ \E id \in sockets : OnNewProducer(id)

\* browser clients that join with all their tracks and stay; the engine
\* accepts every call
NextArrive ==
  \/ Connection /\ UNCHANGED client
  \/ \E id \in sockets : JoinBtnOnClick(id)
  \/ ArriveSteps

SpecArrive == Init /\ [][NextArrive]_vars

\* the same where no step that needs no user waits forever
SpecArriveFair == SpecArrive /\ WF_vars(ArriveSteps)

----------------------------------------------------------------------------
(* Properties *)

IsNewProducer(ev) == ev.name = "newProducer"

\* the getProducers entry of producer p
EntryOf(p) ==
  [socketId |-> producerInfo[p].socketId, producerId |-> p,
   kind |-> producerInfo[p].kind,
   appData |-> producerInfo[p].appData]

\* the engine calls socket id is still awaiting
PendingOf(id) == {req \in DOMAIN pending : req.socket = id}

\* C1: a step in which a produce succeeds (the engine creates producer p for
\* peer P) appends exactly one newProducer event, carrying P's id and p, to the
\* inbox of every socket connected at that step other than P, and nothing to
\* any other inbox; a step that creates no producer (a failed produce
\* included) adds no newProducer event to any inbox.
C1_NewProducerExactlyOnce ==
  [][LET created == (Len(producerInfo) + 1)..Len(producerInfo') IN
       /\ \A p \in created : \A q \in PeerIds :
            inbox'[q] =
              IF q \in sockets /\ q # producerInfo'[p].socketId
              THEN Append(inbox[q],
                          NewProducerEvent(producerInfo'[p].socketId, p,
                                           producerInfo'[p].kind))
              ELSE inbox[q]
       /\ created = {} =>
            \A q \in PeerIds :
              SelectSeq(inbox'[q], IsNewProducer) = SelectSeq(inbox[q], IsNewProducer)
    ]_vars

\* C1 witness: peer 1, still connected, produced; peer 2 holds the one event
\* for it and peer 1 holds none
C1_Witness ==
  \E p \in 1..Len(producerInfo) :
    /\ producerInfo[p].socketId = 1
    /\ {1, 2} \subseteq sockets
    /\ lastReply = [OkReply("produce", p, 0, <<>>) EXCEPT !.socket = 1]
    /\ Count(inbox[2], NewProducerEvent(1, p, producerInfo[p].kind)) = 1
    /\ SelectSeq(inbox[1], IsNewProducer) = <<>>

\* C2: whenever a newProducer event is emitted, its producer is already in the
\* producer list of its owner's session, and a getProducers by any other
\* connected peer at that moment returns it.
C2_NewProducerOnlyWhenQueryable ==
  [][\A q \in PeerIds : \A k \in (Len(inbox[q]) + 1)..Len(inbox'[q]) :
       LET ev == inbox'[q][k] IN
         IsNewProducer(ev) =>
           /\ ev.producerId \in Range(session'[ev.socketId].producers)
           /\ \A x \in sockets' \ {ev.socketId} :
                \E i \in 1..Len(ProducerList(1, x)') :
                  /\ ProducerList(1, x)'[i].producerId = ev.producerId
                  /\ ProducerList(1, x)'[i].socketId = ev.socketId
    ]_vars

\* C3: while the owner P of a successfully created producer p stays connected,
\* the list getProducers returns to any other connected peer Q has the entry
\* with P's id, p and p's kind.
C3_ProducerStaysListed ==
  \A p \in 1..Len(producerInfo) :
    producerInfo[p].socketId \in sockets =>
      \A q \in sockets \ {producerInfo[p].socketId} :
        EntryOf(p) \in Range(ProducerList(1, q))

\* C3 witness: getProducers has just answered peer 2 with peer 1's producer
C3_Witness ==
  /\ {1, 2} \subseteq sockets
  /\ lastReply.op = "getProducers" /\ lastReply.socket = 2
  /\ \E p \in 1..Len(producerInfo) :
       producerInfo[p].socketId = 1 /\ EntryOf(p) \in Range(lastReply.list)

\* C4: the list getProducers returns to X holds, for every registered peer
\* other than X, exactly that peer's recorded producers in their insertion
\* order, each with its kind, and no entry of X or of an unregistered peer; it
\* is empty when no other registered peer has a producer.
C4_GetProducersExact ==
  \A x \in sockets :
    LET list == ProducerList(1, x) IN
      /\ \A i \in 1..Len(list) :
           /\ list[i].socketId # x
           /\ list[i].socketId \in Range(peers)
           /\ list[i].kind = producerInfo[list[i].producerId].kind
      /\ \A id \in Range(peers) \ {x} :
           LET mine == SelectSeq(list, LAMBDA e : e.socketId = id) IN
             /\ Len(mine) = Len(session[id].producers)
             /\ \A k \in 1..Len(mine) :
                  mine[k].producerId = session[id].producers[k]
      /\ (\A id \in Range(peers) \ {x} : session[id].producers = <<>>)
           => list = <<>>

\* C4 witness: getProducers has just answered peer 1 with the two producers
\* of peer 2, in the order they were recorded
C4_Witness ==
  /\ opened = 2
  /\ lastReply.op = "getProducers" /\ lastReply.socket = 1
  /\ Len(session[2].producers) = 2
  /\ Len(lastReply.list) = 2
  /\ lastReply.list[1].producerId = session[2].producers[1]
  /\ lastReply.list[2].producerId = session[2].producers[2]

\* C5: a second run of the disconnect handler for the same socket id emits no
\* further participantLeft and closes no transport.
C5_TeardownIdempotent ==
  [][\A id \in PeerIds :
       (teardowns[id] >= 1 /\ teardowns'[id] > teardowns[id]) =>
         /\ inbox' = inbox
         /\ tstate' = tstate
    ]_vars

\* C6: in the step in which P disconnects, every socket that remains connected
\* is sent participantLeft with P's id.
C6_ParticipantLeftToAll ==
  [][\A id \in PeerIds :
       (id \in sockets /\ id \notin sockets') =>
         \A q \in sockets' :
           inbox'[q] = Append(inbox[q], ParticipantLeftEvent(id))
    ]_vars

\* C6 witness: peer 1 has left, peer 2 is connected and holds the event
C6_Witness ==
  /\ 1 \notin sockets /\ teardowns[1] = 1
  /\ 2 \in sockets
  /\ Count(inbox[2], ParticipantLeftEvent(1)) = 1

\* C7: once a peer's teardown has run and none of its requests is in flight,
\* close() has been called on every transport the engine created for it.
C7_NoTransportLeak ==
  \A id \in 1..opened :
    (id \notin sockets /\ PendingOf(id) = {}) =>
      \A t \in 1..Len(transportInfo) :
        transportInfo[t].socketId = id => tstate[t] # "open"

\* C8: once P's session is out of the registry, no step records a producer
\* in it and no step emits a newProducer event naming P.
C8_NoProduceAfterUnregister ==
  [][\A id \in 1..opened :
       id \notin Range(peers) =>
         /\ session'[id].producers = session[id].producers
         /\ \A q \in PeerIds : \A k \in (Len(inbox[q]) + 1)..Len(inbox'[q]) :
              ~(IsNewProducer(inbox'[q][k]) /\ inbox'[q][k].socketId = id)
    ]_vars

\* C9: the producer referenced by every consumer tracked in a registered
\* peer's session is tracked by a registered peer and is not closed.
C9_ConsumersReferenceLiveProducers ==
  \A id \in Range(peers) : \A c \in Range(session[id].consumers) :
    /\ \E owner \in Range(peers) :
         consumerInfo[c].producerId \in Range(session[owner].producers)
    /\ ~ProducerClosed(consumerInfo[c].producerId)

\* C10: in the step in which a peer disconnects, close() is called on every
\* transport of its session, also when some of the calls throw, and the
\* session is removed from the registry.
C10_TeardownSurvivesCloseErrors ==
  [][\A id \in PeerIds :
       (id \in sockets /\ id \notin sockets') =>
         /\ id \notin Range(peers')
         /\ \A t \in Range(session[id].transports) : tstate'[t] # "open"
    ]_vars

\* C10 witness: the first transport of a removed peer threw on close(), its
\* second one is closed
C10_Witness ==
  \E id \in 1..opened :
    /\ id \notin Range(peers)
    /\ Len(session[id].transports) = 2
    /\ tstate[session[id].transports[1]] = "closeThrew"
    /\ tstate[session[id].transports[2]] = "closed"

\* the session of peer id tracks a transport tagged 'recv'
HasRecvTransport(id) ==
  \E t \in Range(session[id].transports) : transportInfo[t].type = "recv"

\* the step answers a request `op` of socket id with an error, once, hands
\* nothing to the engine and leaves sessions, engine objects and inboxes alone
AnsweredWithErrorOnly(id, op) ==
  /\ lastReply'.op = op /\ lastReply'.socket = id
  /\ ~lastReply'.ok /\ lastReply'.calls = 1
  /\ UNCHANGED <<peers, session, transportInfo, tstate, producerInfo,
                 consumerInfo, pending, inbox, dtlsConnected, router>>

\* a step of a handler of request `op` on socket id: it answers (the reply
\* changes to one for op and id) or it awaits one more engine call
RequestStep(id, op) ==
  \/ lastReply' # lastReply /\ lastReply'.op = op /\ lastReply'.socket = id
  \/ \E req \in DOMAIN pending' :
       /\ req.op = op /\ req.socket = id
       /\ CopiesIn(req, pending') > CopiesIn(req, pending)

\* C13: a step that handles a consume request of a registered peer whose
\* session tracks no transport tagged 'recv' answers it with an error; no
\* consumer is asked of the engine and the consumer lists stay as they were.
C13_ConsumeNeedsRecvTransport ==
  [][\A id \in Range(peers) :
       (~HasRecvTransport(id) /\ RequestStep(id, "consume")) =>
         AnsweredWithErrorOnly(id, "consume")
    ]_vars

\* C13 witness: a peer that tracks a 'send' transport only asked to consume a
\* live producer without naming a transport and was refused
C13_Witness ==
  \E id \in Range(peers) :
    /\ session[id].transports # <<>> /\ ~HasRecvTransport(id)
    /\ \E p \in 1..Len(producerInfo) :
         producerInfo[p].socketId # id /\ ~ProducerClosed(p)
    /\ lastReply = [ErrorReply("consume", "No receiving transport found")
                      EXCEPT !.socket = id]

\* C14: a step that handles a consume request of a registered peer whose
\* capabilities the engine judges unable to consume the producer answers it
\* with an error; the check comes before transport.consume, so no consumer is
\* asked of the engine and the consumer lists stay as they were (a consume
\* step is error-only, or it is not one with incompatible capabilities).
C14_IncompatibleCapabilitiesRefused ==
  [][\A id \in Range(peers) : RequestStep(id, "consume") =>
       \/ AnsweredWithErrorOnly(id, "consume")
       \/ \A p \in ProducerIds, t \in TransportIds \cup {NoTransportId} :
            ~Consume(id, p, "incompatible", t)
    ]_vars

\* C14 witness: every producer id names a live producer and the peer tracks a
\* 'recv' transport, so the refusal it got can only be for its capabilities
C14_Witness ==
  \E id \in Range(peers) :
    /\ HasRecvTransport(id)
    /\ Len(producerInfo) = MaxProducers
    /\ \A p \in 1..Len(producerInfo) : tstate[producerInfo[p].transport] = "open"
    /\ lastReply = [ErrorReply("consume", "cannot consume producer")
                      EXCEPT !.socket = id]

OwnSendTransport(id, t) ==
  t \in Range(session[id].transports) /\ transportInfo[t].type = "send"

\* C16: a step that handles a produce request naming anything but a 'send'
\* transport of the requester's own session answers it with an error, records
\* no producer and emits no newProducer (a produce step is error-only, or it
\* is not one that names such a transport id); hence every producer the
\* engine holds sits on a 'send' transport created for the producer's owner.
C16_ProduceNeedsOwnSendTransport ==
  /\ [](\A p \in 1..Len(producerInfo) :
          /\ transportInfo[producerInfo[p].transport].type = "send"
          /\ transportInfo[producerInfo[p].transport].socketId
               = producerInfo[p].socketId)
  /\ [][\A id \in 1..opened : RequestStep(id, "produce") =>
          \/ AnsweredWithErrorOnly(id, "produce")
          \/ \A t \in TransportIds, kind \in Kinds :
               ~OwnSendTransport(id, t) => ~Produce(id, t, kind)
       ]_vars

\* C16 witness: every transport id names a 'send' transport of another peer;
\* a peer asked to produce on one of them and was refused
C16_Witness ==
  \E id \in Range(peers) :
    /\ Len(transportInfo) = MaxTransports
    /\ \A t \in 1..Len(transportInfo) :
         /\ transportInfo[t].type = "send" /\ tstate[t] = "open"
         /\ transportInfo[t].socketId \in Range(peers) \ {id}
    /\ lastReply = [ErrorReply("produce", "Send transport not found")
                      EXCEPT !.socket = id]

\* the transports of peer id's session that carry tag `type`
TransportsTagged(id, type) ==
  {k \in 1..Len(session[id].transports) :
     transportInfo[session[id].transports[k]].type = type}

\* the ids of those transports
TransportsTaggedIds(id, type) ==
  {t \in Range(session[id].transports) : transportInfo[t].type = type}

\* C18 as stated: every session tracks at most one transport tagged 'send'
\* and at most one tagged 'recv'.
C18_AtMostOneTransportPerTag ==
  \A id \in 1..opened :
    /\ Cardinality(TransportsTagged(id, "send")) <= 1
    /\ Cardinality(TransportsTagged(id, "recv")) <= 1

\* C18 (amended): a session tracks transports created for its own peer only,
\* each once and each tagged 'send' or 'recv'; how many it tracks per tag is
\* not limited.
C18_TransportsTrackedByTag ==
  \A id \in 1..opened :
    LET list == session[id].transports IN
      /\ \A k \in 1..Len(list) :
           /\ transportInfo[list[k]].socketId = id
           /\ transportInfo[list[k]].type \in {"send", "recv"}
           /\ \A j \in 1..Len(list) : list[j] = list[k] => j = k
      /\ Len(list) = Cardinality(TransportsTagged(id, "send"))
                       + Cardinality(TransportsTagged(id, "recv"))

\* C18 witness: a registered peer tracks two 'send' transports, both open
C18_Witness ==
  \E id \in Range(peers) :
    /\ Cardinality(TransportsTagged(id, "send")) = 2
    /\ \A t \in Range(session[id].transports) : tstate[t] = "open"

\* the step resolves the awaited transport creation req
CreateResolves(req) ==
  /\ IsCreateTransport(req)
  /\ CopiesIn(req, pending') < CopiesIn(req, pending)
  /\ Len(transportInfo') = Len(transportInfo) + 1

\* C19: when one of the transport creations a peer has in flight resolves, it
\* is answered with a transport id no session tracked before, that transport
\* is added to the ones the peer's session tracks already, and the other
\* creations in flight stay awaited; so two overlapping createWebRtcTransport
\* requests for 'send' end with two distinct tracked 'send' transports.
C19_ConcurrentCreatesBothTracked ==
  [][\A req \in DOMAIN pending : CreateResolves(req) =>
       LET t == Len(transportInfo') IN
         /\ \A id \in 1..opened : t \notin Range(session[id].transports)
         /\ session' = [session EXCEPT
                          ![req.socket].transports = Append(@, t)]
         /\ transportInfo'[t] = [socketId |-> req.socket, type |-> req.type]
         /\ tstate'[t] = "open"
         /\ lastReply' = [OkReply(req.op, t, 0, <<>>) EXCEPT !.socket = req.socket]
         /\ pending' = pending (-) SetToBag({req})
    ]_vars

\* C19 witness: both requests answered; the peer tracks two open 'send'
\* transports with different ids, the reply to the later one names the second
C19_Witness ==
  \E id \in Range(peers) :
    /\ Len(session[id].transports) = 2
    /\ session[id].transports[1] # session[id].transports[2]
    /\ \A t \in Range(session[id].transports) :
         transportInfo[t].type = "send" /\ tstate[t] = "open"
    /\ pending = EmptyBag
    /\ lastReply = [OkReply("createWebRtcTransport", session[id].transports[2],
                             0, <<>>) EXCEPT !.socket = id]

\* the step ends the awaited engine call req
Settles(req) == CopiesIn(req, pending') < CopiesIn(req, pending)

\* C17: a step that handles a connectTransport naming an id that is not among
\* the transports of the requester's session answers with an error and hands
\* nothing to the engine; one naming a tracked transport hands the call to the
\* engine, and when that call ends the request is answered { connected: true }
\* if the engine connected the transport and with an error otherwise.
C17_ConnectTransportLookup ==
  [][\A id \in 1..opened : RequestStep(id, "connectTransport") =>
       /\ \/ AnsweredWithErrorOnly(id, "connectTransport")
          \/ \A t \in TransportIds :
               t \notin Range(session[id].transports) => ~ConnectTransport(id, t)
       /\ \A t \in Range(session[id].transports) :
            (id \in Range(peers) /\ ConnectTransport(id, t)) =>
              /\ lastReply' = lastReply
              /\ \E req \in DOMAIN pending' :
                   /\ req.op = "connectTransport" /\ req.transport = t
                   /\ CopiesIn(req, pending') > CopiesIn(req, pending)
       /\ \A req \in DOMAIN pending :
            (req.op = "connectTransport" /\ req.socket = id /\ Settles(req)) =>
              /\ lastReply'.calls = 1
              /\ req.transport \in dtlsConnected' \ dtlsConnected
                   => lastReply' = [OkReply("connectTransport", 0, 0, <<>>)
                                     EXCEPT !.socket = id]
              /\ lastReply'.ok => req.transport \in dtlsConnected'
              /\ ~lastReply'.ok => dtlsConnected' = dtlsConnected
    ]_vars

\* C17 witness: the peer's own transport has been connected; every other
\* transport id names a transport of another peer, and the peer's
\* connectTransport for one of those was refused
C17_Witness ==
  \E id \in Range(peers) :
    /\ Len(transportInfo) = MaxTransports
    /\ session[id].transports # <<>>
    /\ Range(session[id].transports) \subseteq dtlsConnected
    /\ \E t \in 1..Len(transportInfo) : transportInfo[t].socketId # id
    /\ lastReply = [ErrorReply("connectTransport", "Transport not found")
                      EXCEPT !.socket = id]

\* C20 as stated: a produce on a 'send' transport of the requester on which no
\* connectTransport has succeeded is answered with an error and records no
\* producer.
C20_ProduceNeedsConnect ==
  [][\A req \in DOMAIN pending :
       (req.op = "produce" /\ req.transport \notin dtlsConnected /\ Settles(req))
         => ~lastReply'.ok /\ producerInfo' = producerInfo
    ]_vars

\* C20 (amended): whether a connectTransport has succeeded on it plays no
\* part: a produce naming a never-connected 'send' transport of the requester
\* is handed to the engine; when the engine call fails it is answered with an
\* error and nothing is recorded, when it succeeds the producer is recorded on
\* that transport in the requester's session and its id is the answer.
C20_ProduceIgnoresConnectState ==
  [][\A id \in 1..opened : RequestStep(id, "produce") =>
       /\ \A t \in Range(session[id].transports), kind \in Kinds :
            ( /\ id \in Range(peers)
              /\ transportInfo[t].type = "send" /\ t \notin dtlsConnected
              /\ Produce(id, t, kind) ) =>
              /\ lastReply' = lastReply
              /\ pending' = pending
                    (+) SetToBag({Request("produce", id, "send", t, kind, 0)})
       /\ \A req \in DOMAIN pending :
            ( /\ req.op = "produce" /\ req.socket = id
              /\ req.transport \notin dtlsConnected /\ Settles(req) ) =>
              IF lastReply'.ok
              THEN LET p == Len(producerInfo) + 1 IN
                /\ Len(producerInfo') = p
                /\ producerInfo'[p].transport = req.transport
                /\ producerInfo'[p].kind = req.kind
                /\ session' = [session EXCEPT ![id].producers = Append(@, p)]
                /\ lastReply' = [OkReply("produce", p, 0, <<>>)
                                  EXCEPT !.socket = id]
              ELSE /\ lastReply'.calls = 1
                   /\ UNCHANGED <<session, producerInfo, inbox>>
    ]_vars

\* C20 witness: a registered peer has just been answered with the id of a
\* producer on a transport on which no connectTransport has succeeded
C20_Witness ==
  \E p \in 1..Len(producerInfo) :
    /\ producerInfo[p].socketId \in Range(peers)
    /\ producerInfo[p].transport \notin dtlsConnected
    /\ tstate[producerInfo[p].transport] = "open"
    /\ p \in Range(session[producerInfo[p].socketId].producers)
    /\ lastReply = [OkReply("produce", p, 0, <<>>)
                      EXCEPT !.socket = producerInfo[p].socketId]

LateRequestOps ==
  {"createWebRtcTransport", "createRecvTransport", "connectTransport",
   "produce", "consume"}

\* C12: once the disconnect handler of P's socket has run, a step that starts
\* handling a request on that socket (it is not the end of an engine call
\* awaited since before) answers with an error and changes no session, no
\* engine object, no awaited call and no inbox.
C12_LateRequestsRefused ==
  [][\A id \in (1..opened) \ sockets : \A op \in LateRequestOps :
       ( /\ teardowns[id] >= 1
         /\ RequestStep(id, op)
         /\ \A req \in DOMAIN pending : ~Settles(req) ) =>
         AnsweredWithErrorOnly(id, op)
    ]_vars

\* C12 witness: a peer that tracked a 'send' transport left; a produce naming
\* that transport, handled on its socket afterwards, was refused while
\* another peer was connected
C12_Witness ==
  \E id \in (1..opened) \ sockets :
    /\ teardowns[id] = 1 /\ id \notin Range(peers)
    /\ \E t \in Range(session[id].transports) : transportInfo[t].type = "send"
    /\ sockets # {}
    /\ lastReply = [ErrorReply("produce", "Peer not found") EXCEPT !.socket = id]

\* C11: the step that ends an awaited engine call runs the callback of its
\* request exactly once, whether the call failed or succeeded and whether or
\* not the broadcast after a successful produce threw; a step that refuses a
\* request without an engine call runs its callback exactly once as well.
C11_AnsweredExactlyOnce ==
  [][/\ \A req \in DOMAIN pending : Settles(req) =>
          /\ lastReply'.op = req.op /\ lastReply'.socket = req.socket
          /\ lastReply'.calls = 1
     /\ lastReply' # lastReply => lastReply'.calls = 1
    ]_vars

\* C30: a step that handles getRtpCapabilities answers, once, with the
\* router's capabilities when the router exists and with an error when it
\* does not, and changes no session, no engine object and no inbox.
C30_GetRtpCapabilities ==
  [][\A id \in 1..opened : RequestStep(id, "getRtpCapabilities") =>
       /\ lastReply' =
            [(IF router THEN OkReply("getRtpCapabilities", 0, 0, <<>>)
              ELSE ErrorReply("getRtpCapabilities", "Router not initialized"))
               EXCEPT !.socket = id]
       /\ UNCHANGED <<sockets, peers, session, transportInfo, tstate,
                      producerInfo, consumerInfo, pending, inbox,
                      dtlsConnected, router>>
    ]_vars

\* C30 witness: before the router exists a connected peer asked for the
\* capabilities and got the error
C30_Witness ==
  \E id \in sockets :
    /\ ~router
    /\ id \in Range(peers) /\ session[id] = EmptySession
    /\ lastReply = [ErrorReply("getRtpCapabilities", "Router not initialized")
                      EXCEPT !.socket = id]

\* C21: a handler refuses a request of a registered peer only for a missing
\* prerequisite, never for what was or was not requested before: a transport
\* creation is never refused, connectTransport is not refused for a transport
\* of the session, produce not for a 'send' transport of the session, consume
\* not for a live producer the capabilities can consume and a 'recv'
\* transport of the session (a refusing step is not the handling of a request
\* whose prerequisites exist).
C21_NoOrderGating ==
  [][\A id \in Range(peers) :
       /\ ~AnsweredWithErrorOnly(id, "createWebRtcTransport")
       /\ ~AnsweredWithErrorOnly(id, "createRecvTransport")
       /\ AnsweredWithErrorOnly(id, "connectTransport") =>
            \A t \in Range(session[id].transports) : ~ConnectTransport(id, t)
       /\ AnsweredWithErrorOnly(id, "produce") =>
            \A t \in Range(session[id].transports), kind \in Kinds :
              transportInfo[t].type = "send" => ~Produce(id, t, kind)
       /\ AnsweredWithErrorOnly(id, "consume") =>
            \A p \in 1..Len(producerInfo),
               t \in TransportsTaggedIds(id, "recv") \cup {NoTransportId} :
              (tstate[producerInfo[p].transport] # "closed"
                 /\ HasRecvTransport(id))
                => ~Consume(id, p, "compatible", t)
    ]_vars

\* C21 witness: a peer produced on a transport that was never connected and
\* asked for the router's capabilities only afterwards
C21_Witness ==
  \E p \in 1..Len(producerInfo) :
    LET id == producerInfo[p].socketId IN
      /\ id \in Range(peers)
      /\ p \in Range(session[id].producers)
      /\ dtlsConnected = {}
      /\ lastReply = [OkReply("getRtpCapabilities", 0, 0, <<>>)
                        EXCEPT !.socket = id]

\* list b is list a, possibly with elements appended
Extends(a, b) == Len(a) <= Len(b) /\ SubSeq(b, 1, Len(a)) = a

SessionKept(id) ==
  /\ Extends(session[id].transports, session'[id].transports)
  /\ Extends(session[id].producers, session'[id].producers)
  /\ Extends(session[id].consumers, session'[id].consumers)

C23_RegistryFollowsConnections ==
  /\ [](/\ \A id \in PeerIds :
             id \in Range(peers) <=> (id <= opened /\ teardowns[id] = 0)
        /\ Cardinality(Range(peers)) = Len(peers))
  /\ [][\A id \in Range(peers') \ Range(peers) :
           session'[id] = EmptySession]_vars

\* C23 witness: one peer's disconnect has been handled after it had created a
\* transport and it is out of the registry, another opened peer is in it
C23_Witness ==
  \E id \in 1..opened, q \in 1..opened :
    /\ teardowns[id] = 1
    /\ id \notin Range(peers)
    /\ session[id].transports # <<>>
    /\ teardowns[q] = 0
    /\ q \in Range(peers)

\* C24: a createRecvTransport handed to the engine asks for a 'recv'
\* transport and a createWebRtcTransport for the type its data names ('send'
\* when it names none); when the creation succeeds exactly one transport, new
\* to the engine and tagged with that type and the requester's id, is
\* appended to the requester's transport list, no other list of any session
\* changes, and the requester is answered once with that transport's
\* descriptor.
C24_CreateTransportAppendsOne ==
  [][/\ \A req \in DOMAIN pending' :
          (IsCreateTransport(req)
             /\ CopiesIn(req, pending') > CopiesIn(req, pending)) =>
            /\ req.op = "createRecvTransport" => req.type = "recv"
            /\ req.op = "createWebRtcTransport" =>
                 \A data \in TransportData :
                    \/ ~CreateWebRtcTransport(req.socket, data)
                    \/ req.type = (IF data = "none" THEN "send" ELSE data)
     /\ \A req \in DOMAIN pending :
          (IsCreateTransport(req) /\ Settles(req) /\ lastReply'.ok) =>
            LET t == Len(transportInfo') IN
              /\ Len(transportInfo') = Len(transportInfo) + 1
              /\ transportInfo'[t] = [socketId |-> req.socket, type |-> req.type]
              /\ SubSeq(transportInfo', 1, t - 1) = transportInfo
              /\ session'[req.socket].transports =
                   Append(session[req.socket].transports, t)
              /\ session'[req.socket].producers = session[req.socket].producers
              /\ session'[req.socket].consumers = session[req.socket].consumers
              /\ \A q \in (1..opened) \ {req.socket} : session'[q] = session[q]
              /\ lastReply' = [OkReply(req.op, t, 0, <<>>)
                                 EXCEPT !.socket = req.socket]
    ]_vars

\* C24 witness: a createRecvTransport has just been answered with the id of
\* the 'recv' transport that is now the last of the requester's list, after a
\* 'send' transport of the same peer
C24_Witness ==
  \E id \in Range(peers) :
    LET ts == session[id].transports IN
      /\ Len(ts) = 2
      /\ transportInfo[ts[1]] = [socketId |-> id, type |-> "send"]
      /\ transportInfo[ts[2]] = [socketId |-> id, type |-> "recv"]
      /\ lastReply = [OkReply("createRecvTransport", ts[2], 0, <<>>)
                        EXCEPT !.socket = id]

\* C25: a consume handed to the engine names the producer the request named
\* and a 'recv' transport of the requester's session; when it succeeds exactly
\* one consumer, of that producer on that transport, is created and appended
\* to the requester's consumer list, no other list of any session changes, and
\* the requester is answered once with a descriptor naming that producer.
C25_ConsumeAppendsOne ==
  [][/\ \A req \in DOMAIN pending' :
          (req.op = "consume"
             /\ CopiesIn(req, pending') > CopiesIn(req, pending)) =>
            /\ req.transport \in Range(session[req.socket].transports)
            /\ transportInfo[req.transport] =
                 [socketId |-> req.socket, type |-> "recv"]
            /\ \A p \in ProducerIds, caps \in Capabilities,
                  t \in TransportIds \cup {NoTransportId} :
                 ~Consume(req.socket, p, caps, t) \/ req.producerId = p
     /\ \A req \in DOMAIN pending :
          (req.op = "consume" /\ Settles(req) /\ lastReply'.ok) =>
            LET c == Len(consumerInfo') IN
              /\ Len(consumerInfo') = Len(consumerInfo) + 1
              /\ SubSeq(consumerInfo', 1, c - 1) = consumerInfo
              /\ consumerInfo'[c].producerId = req.producerId
              /\ consumerInfo'[c].transport = req.transport
              /\ transportInfo[req.transport] =
                   [socketId |-> req.socket, type |-> "recv"]
              /\ session'[req.socket].consumers =
                   Append(session[req.socket].consumers, c)
              /\ session'[req.socket].transports = session[req.socket].transports
              /\ session'[req.socket].producers = session[req.socket].producers
              /\ \A q \in (1..opened) \ {req.socket} : session'[q] = session[q]
              /\ lastReply' = [OkReply("consume", c, req.producerId, <<>>)
                                 EXCEPT !.socket = req.socket]
    ]_vars

\* C25 witness: a registered peer has just been answered with the descriptor
\* of the one consumer of its list, made on its 'recv' transport for a
\* producer of another peer
C25_Witness ==
  \E id \in Range(peers) :
    /\ Len(session[id].consumers) = 1
    /\ LET c == session[id].consumers[1] IN
         /\ consumerInfo[c].transport \in Range(session[id].transports)
         /\ transportInfo[consumerInfo[c].transport].type = "recv"
         /\ producerInfo[consumerInfo[c].producerId].socketId # id
         /\ lastReply = [OkReply("consume", c, consumerInfo[c].producerId, <<>>)
                           EXCEPT !.socket = id]

\* the transports the engine created for other peers than id
ForeignTransports(id) ==
  {t \in 1..Len(transportInfo) : transportInfo[t].socketId # id}

\* the step answers request `op` of socket id with the error `msg` and does
\* nothing else
RefusedAs(id, op, msg) ==
  AnsweredWithErrorOnly(id, op) /\ lastReply'.error = msg

\* C26: the lists of a peer's session change only in a step that ends an
\* engine call made for a request of that peer, and that step is answered to
\* that peer and touches the requests of no other; and a connectTransport,
\* produce or consume of a registered peer naming a transport created for
\* another peer is answered with the handler's not-found error and nothing
\* else happens.
C26_SessionsOwnedByTheirPeer ==
  [][/\ \A q \in 1..opened :
          session'[q] # session[q] =>
            /\ lastReply'.socket = q
            /\ \E req \in DOMAIN pending : req.socket = q /\ Settles(req)
            /\ \A req \in DOMAIN pending \cup DOMAIN pending' :
                 CopiesIn(req, pending') # CopiesIn(req, pending)
                   => req.socket = q
     /\ \A id \in Range(peers) :
          /\ RequestStep(id, "connectTransport") =>
               \/ RefusedAs(id, "connectTransport", "Transport not found")
               \/ \A t \in ForeignTransports(id) : ~ConnectTransport(id, t)
          /\ RequestStep(id, "produce") =>
               \/ RefusedAs(id, "produce", "Send transport not found")
               \/ \A t \in ForeignTransports(id), kind \in Kinds :
                    ~Produce(id, t, kind)
          /\ RequestStep(id, "consume") =>
               \/ RefusedAs(id, "consume",
                            "Receiving transport not found or not 'recv'")
               \/ \A t \in ForeignTransports(id), p \in ProducerIds,
                     caps \in Capabilities : ~Consume(id, p, caps, t)
    ]_vars

\* C26 witness: the engine's transports are the 'recv' transports of two
\* registered peers, and one of the peers has just been refused a consume,
\* which therefore named the transport of the other
C26_Witness ==
  \E id \in Range(peers), q \in Range(peers) :
    /\ id # q
    /\ Len(transportInfo) = MaxTransports
    /\ HasRecvTransport(id)
    /\ HasRecvTransport(q)
    /\ lastReply = [ErrorReply("consume",
                                "Receiving transport not found or not 'recv'")
                      EXCEPT !.socket = id]

\* C27 as stated: when a produce succeeds, the newProducer event every other
\* client receives, and the entry getProducers lists for the new producer from
\* then on, carry the metadata the request supplied as `appData`
C27_AppDataCarried ==
  [][\A req \in DOMAIN pending :
       (req.op = "produce" /\ Settles(req)
          /\ Len(producerInfo') = Len(producerInfo) + 1) =>
         LET p == Len(producerInfo') IN
           /\ \A q \in PeerIds :
                inbox'[q] # inbox[q] =>
                  inbox'[q][Len(inbox'[q])].appData.meta = req.appData.meta
           /\ producerInfo'[p].appData.meta = req.appData.meta
    ]_vars

\* the participantLeft listener of client q has run for the leaving of id
HeardLeaving(q, id) ==
  \E k \in 1..client[q].handled : inbox[q][k] = ParticipantLeftEvent(id)

\* C28: when a client that clicked Join clicks Leave, its socket eventually
\* disconnects, and by then participantLeft with its id has been emitted to
\* every socket that is connected; and at each client it was emitted to, the
\* participantLeft listener eventually runs for it, unless that client leaves
\* as well.
C28_LeaveNotifiesOthers ==
  \A id \in PeerIds :
    /\ (client[id].pc = "left" /\ id \in sockets) ~>
         (/\ id \notin sockets
          /\ \A q \in sockets : ParticipantLeftEvent(id) \in Range(inbox[q]))
    /\ \A q \in PeerIds \ {id} :
         (ParticipantLeftEvent(id) \in Range(inbox[q])) ~>
           (HeardLeaving(q, id) \/ ~ClientOnline(q))

\* C28 witness: one client has left and is disconnected, and the listener of
\* another, which has joined and stays, has run for its participantLeft
C28_Witness ==
  \E id \in PeerIds, q \in PeerIds :
    /\ client[id].pc = "left"
    /\ id \notin sockets
    /\ client[q].pc = "joined"
    /\ ClientOnline(q)
    /\ HeardLeaving(q, id)

\* producer p exists, its owner is registered and its transport is open
Live(p) ==
  /\ p \in 1..Len(producerInfo)
  /\ producerInfo[p].socketId \in Range(peers)
  /\ tstate[producerInfo[p].transport] = "open"

\* client c has made a consumer for producer p
ConsumedBy(c, p) ==
  \E k \in 1..Len(client[c].consumers) : client[c].consumers[k].producerId = p

\* every client whose join function has returned has a consumer for every
\* live producer of another participant
CaughtUp ==
  \A c \in PeerIds, p \in 1..MaxJoinProducers :
    (client[c].pc = "joined" /\ ClientOnline(c) /\ Live(p)
       /\ producerInfo[p].socketId # c) => ConsumedBy(c, p)

\* C29: again and again, every client that has completed Join has a consumer
\* for every live producer of another participant; so a producer that stays
\* live is eventually consumed by a client that stays joined, whether it was
\* there at the client's getProducers, appeared between that and the return
\* of the join function, or later.
C29_JoinedClientConsumesLiveProducers == []<>CaughtUp

\* C29 witness: a client whose join function has returned has two consumers,
\* the first for the later producer of another participant and the second for
\* the earlier one: the earlier one came from the getProducers list, the later
\* one through a newProducer event handled while the join loop was running
C29_Witness ==
  \E c \in PeerIds, p1, p2 \in 1..MaxJoinProducers :
    /\ p1 < p2 /\ Live(p1) /\ Live(p2)
    /\ producerInfo[p1].socketId # c /\ producerInfo[p2].socketId # c
    /\ client[c].pc = "joined" /\ ClientOnline(c)
    /\ Len(client[c].consumers) = 2
    /\ client[c].consumers[1].producerId = p2
    /\ client[c].consumers[2].producerId = p1

\* C31: a statement of the disconnect handler of peer P that closes one of
\* P's transports or removes P from the registry runs after participantLeft
\* for P was emitted: every other connected socket holds the event by then,
\* and when the event is emitted P is registered with none of its transports
\* closed.
C31_ParticipantLeftFirst ==
  [][\A id \in 1..opened :
       /\ ((\/ id \in Range(peers) /\ id \notin Range(peers')
            \/ \E t \in Range(session[id].transports) :
                 tstate[t] = "open" /\ tstate'[t] # "open")
           => /\ id \notin sockets
              /\ \A q \in sockets :
                   ParticipantLeftEvent(id) \in Range(inbox[q]))
       /\ ((\E q \in PeerIds :
              Count(inbox'[q], ParticipantLeftEvent(id))
                > Count(inbox[q], ParticipantLeftEvent(id)))
           => /\ id \in Range(peers) /\ id \in Range(peers')
              /\ \A t \in Range(session[id].transports) : tstate'[t] = "open")
    ]_vars

\* C31 witness: the handler of peer P is inside its forEach loop: the other
\* socket holds participantLeft for P, one of P's two transports is closed,
\* the other is still open and P is still registered
C31_Witness ==
  \E id \in PeerIds, q \in sockets :
    /\ TeardownRunning(id)
    /\ ParticipantLeftEvent(id) \in Range(inbox[q])
    /\ id \in Range(peers)
    /\ Len(session[id].transports) = 2
    /\ tstate[session[id].transports[1]] = "closed"
    /\ tstate[session[id].transports[2]] = "open"

\* the awaited engine call req ends in this step without the engine having
\* created a transport, a producer or a consumer
EngineCallFails(req) ==
  /\ req.op \in {"createWebRtcTransport", "createRecvTransport", "produce",
                 "consume"}
  /\ Settles(req)
  /\ Len(transportInfo') = Len(transportInfo)
  /\ Len(producerInfo') = Len(producerInfo)
  /\ Len(consumerInfo') = Len(consumerInfo)

\* C32: when the engine call awaited by createWebRtcTransport,
\* createRecvTransport, produce or consume fails, no session's transport,
\* producer or consumer list changes, no event is emitted, and the requester
\* is answered once, with an error.
C32_EngineFailureLeavesSessions ==
  [][\A req \in DOMAIN pending : EngineCallFails(req) =>
       /\ session' = session
       /\ inbox' = inbox
       /\ lastReply'.socket = req.socket /\ lastReply'.op = req.op
       /\ ~lastReply'.ok /\ lastReply'.calls = 1
    ]_vars

\* C32 witness: a registered peer with an open send transport was just
\* answered that the engine failed to produce; it tracks no producer and no
\* socket holds a newProducer event of it
C32_Witness ==
  \E id \in Range(peers) :
    /\ lastReply = [ErrorReply("produce", "Failed to produce media")
                      EXCEPT !.socket = id]
    /\ \E t \in Range(session[id].transports) :
         transportInfo[t].type = "send" /\ tstate[t] = "open"
    /\ session[id].producers = <<>>
    /\ \E q \in sockets \ {id} :
         \A k \in 1..Len(inbox[q]) : inbox[q][k].socketId # id

\* the 'recv' transports tracked in the session of peer id
RecvTransports(id) ==
  {t \in Range(session[id].transports) : transportInfo[t].type = "recv"}

\* the step hands a consume request of peer id to the engine
ConsumeAwaited(id, req) ==
  /\ req.op = "consume" /\ req.socket = id
  /\ CopiesIn(req, pending') > CopiesIn(req, pending)

\* C33: a consume request of a registered peer that names a transport is
\* handed to the engine only on that transport and only if it is a 'recv'
\* transport of the requester's session, and is otherwise answered with an
\* error; one that names none is handed to the engine only on the
\* earliest-created 'recv' transport of the requester's session and is
\* answered with an error if there is none. The consumer the engine then
\* creates is on the transport the request was handed over with, and without
\* a handover no consumer is created.
C33_ConsumeTransportChoice ==
  [][/\ \A id \in Range(peers) :
          \/ /\ \A req \in DOMAIN pending' : ConsumeAwaited(id, req) =>
                   /\ req.transport \in RecvTransports(id)
                   /\ req.transportId # NoTransportId =>
                        req.transport = req.transportId
                   /\ req.transportId = NoTransportId =>
                        \A u \in RecvTransports(id) : req.transport <= u
             /\ \A t \in (1..MaxChoiceTransports) \cup {NoTransportId} :
                  ((t # NoTransportId /\ t \notin RecvTransports(id))
                     \/ RecvTransports(id) = {}) =>
                    \/ /\ AnsweredWithErrorOnly(id, "consume")
                       /\ consumerInfo' = consumerInfo
                    \/ \A p \in 1..MaxChoiceProducers :
                         ~Consume(id, p, "compatible", t)
          \/ ~RequestStep(id, "consume")
     /\ \A req \in DOMAIN pending :
          (req.op = "consume" /\ Settles(req)
             /\ Len(consumerInfo') > Len(consumerInfo)) =>
            consumerInfo'[Len(consumerInfo')].transport = req.transport
    ]_vars

\* C33 witness: a peer tracks two 'recv' transports, and its consume request
\* that named no transport is with the engine on the earlier one
C33_Witness ==
  \E id \in Range(peers), t1, t2 \in 1..MaxChoiceTransports :
    /\ t1 < t2 /\ {t1, t2} \subseteq RecvTransports(id)
    /\ \E req \in DOMAIN pending :
         /\ req.op = "consume" /\ req.socket = id
         /\ req.transportId = NoTransportId
         /\ req.transport = t1

\* C34: when the transport creation of a createWebRtcTransport request that
\* was sent with an acknowledgement and no payload resolves, the transport is
\* tagged 'send', is tracked in the requester's session, and the requester is
\* answered with the transport's parameters.
C34_AckOnlyRequestAnswered ==
  [][\A req \in DOMAIN pending : (~req.callback /\ CreateResolves(req)) =>
       LET t == Len(transportInfo') IN
         /\ transportInfo'[t].type = "send"
         /\ t \in Range(session'[req.socket].transports)
         /\ lastReply' = [OkReply(req.op, t, 0, <<>>) EXCEPT !.socket = req.socket]
    ]_vars

\* the participantLeft listener of client c runs in this step, for socket x
HandlesLeaving(c, x) ==
  /\ client'[c].handled = client[c].handled + 1
  /\ client[c].handled < Len(inbox[c])
  /\ inbox[c][client[c].handled + 1] = ParticipantLeftEvent(x)

\* client c shows a video card labelled x
HasCard(c, x) ==
  \E k \in 1..Len(c.consumers) : c.consumers[k].socketId = x

\* C35: when the participantLeft listener of a client has run for socket id x,
\* the client's grid holds no card labelled x and x is not in its participant
\* list.
C35_LeftParticipantCleared ==
  [][\A c, x \in PeerIds : HandlesLeaving(c, x) =>
       /\ ~HasCard(client'[c], x)
       /\ x \notin client'[c].participants
    ]_vars

\* C36: no client's grid holds two cards for the same remote producer, and
\* no session tracks two consumers of the same producer.
C36_OneConsumerPerProducer ==
  /\ \A c \in PeerIds : \A j, k \in 1..Len(client[c].consumers) :
       j # k => client[c].consumers[j].producerId
                  # client[c].consumers[k].producerId
  /\ \A id \in 1..opened : \A j, k \in 1..Len(session[id].consumers) :
       j # k => consumerInfo[session[id].consumers[j]].producerId
                  # consumerInfo[session[id].consumers[k]].producerId

\* C37: once the participantLeft listener of a client has run for socket id
\* x, no later step adds a card labelled x to the client's grid or x to its
\* participant list.
C37_LeftParticipantStaysGone ==
  [][\A c, x \in PeerIds : HeardLeaving(c, x) =>
       /\ HasCard(client'[c], x) => HasCard(client[c], x)
       /\ x \in client'[c].participants => x \in client[c].participants
    ]_vars

\* the peers whose session tracks producer p
OwnersOf(p) == {id \in 1..opened : p \in Range(session[id].producers)}

\* C38: the socketId inside the appData of every recorded producer, of every
\* newProducer event sent and of every entry of a getProducers reply is the id
\* of the peer whose session tracks the producer, and of that peer only.
C38_AppDataSocketIdIsOwner ==
  /\ \A p \in 1..Len(producerInfo) :
       OwnersOf(p) = {producerInfo[p].appData.socketId}
  /\ \A q \in PeerIds : \A k \in 1..Len(inbox[q]) :
       IsNewProducer(inbox[q][k]) =>
         /\ OwnersOf(inbox[q][k].producerId) = {inbox[q][k].appData.socketId}
         /\ inbox[q][k].socketId = inbox[q][k].appData.socketId
  /\ (lastReply.op = "getProducers" /\ lastReply.ok) =>
       \A k \in 1..Len(lastReply.list) :
         /\ OwnersOf(lastReply.list[k].producerId)
              = {lastReply.list[k].appData.socketId}
         /\ lastReply.list[k].socketId = lastReply.list[k].appData.socketId

\* C38 witness: a producer was recorded for a request whose
\* rtpParameters.appData brought the socketId of another peer; that other peer
\* holds its newProducer event and was just answered a getProducers list with
\* its entry
C38_Witness ==
  \E p \in 1..Len(producerInfo), id, q \in Range(peers) :
    /\ id # q
    /\ OwnersOf(p) = {id}
    /\ producerInfo[p].rtpAppData.socketId = q
    /\ \E k \in 1..Len(inbox[q]) :
         IsNewProducer(inbox[q][k]) /\ inbox[q][k].producerId = p
    /\ lastReply.op = "getProducers" /\ lastReply.ok /\ lastReply.socket = q
    /\ \E k \in 1..Len(lastReply.list) : lastReply.list[k].producerId = p

====
